---- MODULE Spec2Model ----
(***************************************************************************)
(* Model of the conversational RAG orchestrator of project-SAGE:           *)
(*   backend/app/services/groq_service.py   (GroqAcademicService)          *)
(*   backend/app/api/endpoints/courses.py   (search_courses)               *)
(*                                                                         *)
(* A Python string is modelled as a sequence of pieces (TLA+ strings):     *)
(* single characters for text the code inspects, whole literals for the    *)
(* fixed templates.  String concatenation is sequence concatenation.       *)
(* Distances and similarities are integers counted in tenths (10 = 1.0).   *)
(***************************************************************************)
EXTENDS Integers, Sequences, FiniteSets, TLC

\* ------------------------------------------------------------------ bounds
\* longest conversation history handed to a turn
MaxHist == 4
\* most chunks one completion stream produces
MaxChunks == 2

\* ------------------------------------------------------- program constants
HistoryWindow == 10
ExpansionWindow == 3
MaxCodesPerTurn == 2
DocPreviewLen == 500
TempChat == 1
TempStream == 7
TempSocial == 5
TempRetry == 0

\* sentinel for a key that is absent from a dictionary
Missing == <<"<absent>">>
\* Python None
None == <<"<None>">>
\* truthiness of an optional string: absent, None and "" are falsy
Truthy(v) == v # Missing /\ v # None /\ v # << >>

Min(a, b) == IF a < b THEN a ELSE b
Max(a, b) == IF a > b THEN a ELSE b

\* ------------------------------------------------------------ str helpers
RECURSIVE Join(_, _)
\* sep.join(parts) for a sequence of strings
Join(sep, parts) ==
    IF Len(parts) = 0 THEN << >>
    ELSE IF Len(parts) = 1 THEN parts[1]
    ELSE parts[1] \o sep \o Join(sep, Tail(parts))

\* s[:n]
Prefix(s, n) == SubSeq(s, 1, Min(n, Len(s)))

\* the slice taken from the wrong end: lst[:n]
LastNTakesOldest(lst, n) == SubSeq(lst, 1, Min(n, Len(lst)))

\* lst[-n:]
LastN(lst, n) == SubSeq(lst, Max(1, Len(lst) - n + 1), Len(lst))

\* the characters the model's texts are written with
UpperLetters == {"A", "B", "C", "D", "E", "H", "I"}
LowerLetters == {"a", "b", "h", "i"}
Digits == {"1", "2", "3", "4"}
\* what \s matches
Spaces == {" ", "\t", "\n"}
IsWordChar(c) == c \in UpperLetters \cup LowerLetters \cup Digits

\* str.upper(), character by character
UpperChar(c) ==
    CASE c = "a" -> "A" [] c = "b" -> "B" [] c = "h" -> "H" [] c = "i" -> "I" [] OTHER -> c
Upper(s) == [i \in 1..Len(s) |-> UpperChar(s[i])]

RECURSIVE RemoveSpaces(_)
\* s.replace(" ", ""): only the space character is removed
RemoveSpaces(s) ==
    IF Len(s) = 0 THEN << >>
    ELSE (IF Head(s) = " " THEN << >> ELSE <<Head(s)>>) \o RemoveSpaces(Tail(s))

\* ------------------------------------------------------- language detector
\* what langdetect.detect can do with a text: report an ISO code, raise
\* LangDetectException (ambiguous / featureless text), or fail otherwise
\* (e.g. TypeError on a None content)
ClassifierOutcomes == {"tr", "en", "de", "LangDetectException", "TypeError"}

\* detect_language: "RAISE" stands for an exception leaving the method
detect_language(outcome) ==
    IF outcome = "tr" THEN "tr"
    ELSE IF outcome \in {"en", "de"} THEN "en"
    ELSE IF outcome = "LangDetectException" THEN "en"
    ELSE "RAISE"

\* ---------------------------------------------------------- fixed strings
\* (the Turkish literals are written here without their diacritics)
UnavailableApology(language) ==
    IF language = "tr"
    THEN <<"Uzgunum, su anda yanit olusturamiyorum. Lutfen daha sonra tekrar deneyin.">>
    ELSE <<"I'm sorry, I cannot generate a response at the moment. Please try again later.">>

\* a fallback that forgets the expected language
MismatchApologyEnglishOnly(language) ==
    <<"Sorry, I couldn't produce a response in English. Please try again.">>

MismatchApology(language) ==
    IF language = "tr"
    THEN <<"Uzgunum, yaniti Turkce olusturamadim. Lutfen tekrar deneyin.">>
    ELSE <<"Sorry, I couldn't produce a response in English. Please try again.">>

Apologies ==
    {UnavailableApology(l) : l \in {"tr", "en"}} \cup {MismatchApology(l) : l \in {"tr", "en"}}

\* create_system_prompt(language, project_context)
create_system_prompt(language, project_context) ==
    (IF language = "tr" THEN <<"<academic system prompt tr>">>
                        ELSE <<"<academic system prompt en>">>) \o project_context

\* create_social_system_prompt(language)
create_social_system_prompt(language) ==
    IF language = "tr" THEN <<"<social system prompt tr>">>
                       ELSE <<"<social system prompt en>">>

lang_label(language) == IF language = "tr" THEN "Turkish" ELSE "English"

lang_instruction(language) ==
    <<"STRICTLY: Respond only in ", lang_label(language),
      ". Do not use other languages or translate content.">>

retry_instruction(language) ==
    <<"URGENT: Reply only in ", lang_label(language),
      ". Do NOT translate or answer in any other language.">>

\* ------------------------------------------------------ context builders
\* One collection query is described by a record
\*   [error |-> BOOLEAN, has_distances |-> BOOLEAN, hits |-> Seq(hit)]
\* error: get_collection / encode / query raised.

\* similarity = 1.0 - distance if distance is not None else 0.0
Similarity(has_distance, distance) ==
    IF has_distance THEN 10 - distance ELSE 0

\* f"{similarity*100:.1f}" for a similarity counted in tenths
FormatPct(sim) == <<ToString(sim * 10), ".0">>

\* the lines appended to context_parts for one course hit
CourseHitParts(h, has_distances) ==
    << <<"\n[Relevance: ">> \o FormatPct(Similarity(has_distances, h.distance))
         \o <<"%] ">> \o h.course_code \o <<" - ">> \o h.course_title >>
    \o (IF Truthy(h.instructor)
        THEN << <<"Instructor: ">> \o h.instructor >> ELSE << >>)
    \o (IF Truthy(h.document)
        THEN << <<"Content: ">> \o Prefix(h.document, DocPreviewLen) \o <<"...\n">> >>
        ELSE << >>)

RECURSIVE CourseParts(_, _)
CourseParts(hits, has_distances) ==
    IF Len(hits) = 0 THEN << >>
    ELSE CourseHitParts(Head(hits), has_distances) \o CourseParts(Tail(hits), has_distances)

\* the similarities the course builder derives, in hit order
CourseSimilarities(res) ==
    [i \in 1..Len(res.hits) |-> Similarity(res.has_distances, res.hits[i].distance)]

\* _fallback_course_search: rows is the outcome of the ILIKE query
RowParts(r) ==
    << <<"\n">> \o r.course_code \o <<" - ">> \o r.course_title >>
    \o (IF Truthy(r.instructor)
        THEN << <<"Instructor: ">> \o r.instructor >> ELSE << >>)
    \o (IF Truthy(r.catalog_description)
        THEN << <<"Description: ">> \o Prefix(r.catalog_description, 300) \o <<"\n">> >>
        ELSE << >>)

RECURSIVE FallbackParts(_)
FallbackParts(rows) ==
    IF Len(rows) = 0 THEN << >>
    ELSE RowParts(Head(rows)) \o FallbackParts(Tail(rows))

fallback_course_search(fb) ==
    IF fb.error THEN << >>
    ELSE IF Len(fb.rows) = 0 THEN << >>
    ELSE Join(<<"\n">>, << <<"RELEVANT COURSES (Keyword Search):\n">> >> \o FallbackParts(fb.rows))

\* a hit whose metadata lacks course_code or course_title raises KeyError
CourseHitRaises(h) == h.course_code = Missing \/ h.course_title = Missing

\* get_course_context_with_embeddings: any exception falls back to PostgreSQL
get_course_context_with_embeddings(res, fb) ==
    IF res.error THEN fallback_course_search(fb)
    ELSE IF Len(res.hits) = 0 THEN << >>
    ELSE IF \E i \in 1..Len(res.hits) : CourseHitRaises(res.hits[i])
         THEN fallback_course_search(fb)
    ELSE Join(<<"\n">>,
              << <<"RELEVANT COURSES (Semantic Search Results):\n">> >>
              \o CourseParts(res.hits, res.has_distances))

\* ---- venues (dining_places + entertainment_places)
\* distance_from_campus of a venue's metadata is a record
\*   [kind |-> "num" | "absent" | "bad", m |-> meters]
\* "bad" is a value float() rejects.
DefaultCampusDistance == 999000
KmSwitch == 1000

\* the rows appended to all_results for one collection (none when the query raised)
CollectionResults(res) ==
    IF res.error THEN << >>
    ELSE [i \in 1..Len(res.hits) |->
            [metadata |-> res.hits[i].metadata,
             document |-> res.hits[i].document,
             has_distance |-> res.has_distances,
             distance |-> res.hits[i].distance]]

\* key=lambda r: float(r['metadata'].get('distance_from_campus', 999.0))
CampusKey(r) ==
    IF r.metadata.distance_from_campus.kind = "absent" THEN DefaultCampusDistance
    ELSE r.metadata.distance_from_campus.m

CampusKeyRaises(r) == r.metadata.distance_from_campus.kind = "bad"

RECURSIVE InsertByCampusKey(_, _)
\* insert r behind every element whose key is <= its own (sorted() is stable)
InsertByCampusKey(r, sorted) ==
    IF Len(sorted) = 0 THEN <<r>>
    ELSE IF CampusKey(Head(sorted)) <= CampusKey(r)
         THEN <<Head(sorted)>> \o InsertByCampusKey(r, Tail(sorted))
         ELSE <<r>> \o sorted

RECURSIVE SortByCampusKey(_)
SortByCampusKey(rs) ==
    IF Len(rs) = 0 THEN << >>
    ELSE InsertByCampusKey(rs[Len(rs)], SortByCampusKey(SubSeq(rs, 1, Len(rs) - 1)))

\* whole-meter distances between 1 and 2 km that lie halfway between two tenths
\* and whose float is the smaller neighbour, so that .1f rounds them down
TiesRoundingDown == {1150, 1250, 1450, 1650, 1950}

\* f"{dist_km:.1f}" for a distance of m meters, m < 2000
FormatKm(m) ==
    LET t == IF m \in TiesRoundingDown THEN m \div 100 ELSE (m + 50) \div 100
    IN <<ToString(t \div 10), ".", ToString(t % 10)>>

\* the distance line of one venue; nothing when the value is falsy (absent or 0.0)
DistanceParts(d) ==
    IF d.kind = "absent" \/ (d.kind = "num" /\ d.m = 0) THEN << >>
    ELSE IF d.m < KmSwitch
         THEN << <<"Distance: ", ToString(d.m), " meters from campus">> >>
         ELSE << <<"Distance: ">> \o FormatKm(d.m) \o <<" km from campus">> >>

OptionalLine(label, v) == IF Truthy(v) THEN << <<label>> \o v >> ELSE << >>

VenueParts(r) ==
    << <<"\n[Relevance: ">> \o FormatPct(Similarity(r.has_distance, r.distance))
         \o <<"%] ">> \o r.metadata.name >>
    \o OptionalLine("Category: ", r.metadata.category)
    \o OptionalLine("Cuisine: ", r.metadata.cuisine_type)
    \o DistanceParts(r.metadata.distance_from_campus)
    \o OptionalLine("Price: ", r.metadata.price)
    \o OptionalLine("Address: ", r.metadata.address)
    \o OptionalLine("Features: ", r.metadata.tags)
    \o OptionalLine("Phone: ", r.metadata.phone)
    \o << << >> >>

RECURSIVE AllVenueParts(_)
AllVenueParts(rs) ==
    IF Len(rs) = 0 THEN << >> ELSE VenueParts(Head(rs)) \o AllVenueParts(Tail(rs))

\* venues cut to top_k in arrival order and sorted afterwards
RenderedVenuesCutBeforeSort(dining, entertainment, top_k) ==
    SortByCampusKey(Prefix(CollectionResults(dining) \o CollectionResults(entertainment), top_k))

\* the venues that get rendered: sorted by campus distance, cut to top_k
RenderedVenues(dining, entertainment, top_k) ==
    Prefix(SortByCampusKey(CollectionResults(dining) \o CollectionResults(entertainment)), top_k)

\* exceptions that reach the outer handler of get_restaurant_context
VenueBuildRaises(dining, entertainment, top_k) ==
    LET all == CollectionResults(dining) \o CollectionResults(entertainment) IN
      \/ \E i \in 1..Len(all) : CampusKeyRaises(all[i])
      \/ \E i \in 1..Len(RenderedVenues(dining, entertainment, top_k)) :
             RenderedVenues(dining, entertainment, top_k)[i].metadata.name = Missing

\* a builder that gives up the whole block when one of the two collections failed
get_restaurant_context_all_or_nothing(dining, entertainment, top_k) ==
    IF dining.error \/ entertainment.error THEN << >>
    ELSE IF Len(CollectionResults(dining) \o CollectionResults(entertainment)) = 0 THEN << >>
    ELSE IF VenueBuildRaises(dining, entertainment, top_k) THEN << >>
    ELSE Join(<<"\n">>,
              << <<"NEARBY VENUES (from database):\n">> >>
              \o AllVenueParts(RenderedVenues(dining, entertainment, top_k)))

get_restaurant_context(dining, entertainment, top_k) ==
    IF Len(CollectionResults(dining) \o CollectionResults(entertainment)) = 0 THEN << >>
    ELSE IF VenueBuildRaises(dining, entertainment, top_k) THEN << >>
    ELSE Join(<<"\n">>,
              << <<"NEARBY VENUES (from database):\n">> >>
              \o AllVenueParts(RenderedVenues(dining, entertainment, top_k)))

\* ---- events
EventParts(h, has_distances) ==
    << <<"\n[Relevance: ">> \o FormatPct(Similarity(has_distances, h.distance))
         \o <<"%] ">> \o h.metadata.title >>
    \o OptionalLine("Category: ", h.metadata.category)
    \o OptionalLine("Type: ", h.metadata.event_type)
    \o OptionalLine("Date: ", h.metadata.event_date)
    \o OptionalLine("Venue: ", h.metadata.venue_name)
    \o OptionalLine("Price: ", h.metadata.price_info)
    \o OptionalLine("Ticket URL: ", h.metadata.ticket_url)
    \o << << >> >>

RECURSIVE AllEventParts(_, _)
AllEventParts(hits, has_distances) ==
    IF Len(hits) = 0 THEN << >>
    ELSE EventParts(Head(hits), has_distances) \o AllEventParts(Tail(hits), has_distances)

get_event_context(res) ==
    IF res.error THEN << >>
    ELSE IF Len(res.hits) = 0 THEN << >>
    ELSE IF \E i \in 1..Len(res.hits) : res.hits[i].metadata.title = Missing THEN << >>
    ELSE Join(<<"\n">>,
              << <<"UPCOMING EVENTS IN ANKARA:\n">> >>
              \o AllEventParts(res.hits, res.has_distances))

\* --------------------------------------------------------- query expander
\* a history turn is [role |-> ..., content |-> ...]; NoRole marks a turn
\* whose dictionary has no 'role' key
NoRole == "<absent>"

RECURSIVE UpperRun(_, _)
UpperRun(s, i) ==
    IF i <= Len(s) /\ s[i] \in UpperLetters THEN 1 + UpperRun(s, i + 1) ELSE 0

RECURSIVE SpaceRun(_, _)
SpaceRun(s, i) ==
    IF i <= Len(s) /\ s[i] \in Spaces THEN 1 + SpaceRun(s, i + 1) ELSE 0

\* end (exclusive) of a match of \b[A-Z]{2,4}\s*\d{3}\b starting at i, 0 if none
CodeMatchEnd(s, i) ==
    LET r == UpperRun(s, i)
        k == i + r + SpaceRun(s, i + r)
    IN IF /\ (i = 1 \/ ~IsWordChar(s[i - 1]))
          /\ r >= 2 /\ r <= 4
          /\ k + 2 <= Len(s)
          /\ \A j \in k..(k + 2) : s[j] \in Digits
          /\ (k + 3 > Len(s) \/ ~IsWordChar(s[k + 3]))
       THEN k + 3 ELSE 0

RECURSIVE FindCodes(_, _)
\* re.findall(r'\b[A-Z]{2,4}\s*\d{3}\b', s), scanning from position i
FindCodes(s, i) ==
    IF i > Len(s) THEN << >>
    ELSE IF CodeMatchEnd(s, i) > 0
         THEN <<SubSeq(s, i, CodeMatchEnd(s, i) - 1)>> \o FindCodes(s, CodeMatchEnd(s, i))
         ELSE FindCodes(s, i + 1)

RECURSIVE RecentContext(_)
\* the recent_context list built from the turns given
RecentContext(turns) ==
    IF Len(turns) = 0 THEN << >>
    ELSE (IF Head(turns).role = "user" THEN <<Head(turns).content>>
          ELSE IF Head(turns).role = "assistant"
               THEN Prefix(FindCodes(Head(turns).content, 1), MaxCodesPerTurn)
               ELSE << >>)
         \o RecentContext(Tail(turns))

\* msg['role'] raises KeyError on a turn without a role
ExpansionRaises(hist) ==
    \E i \in 1..Len(LastN(hist, ExpansionWindow)) : LastN(hist, ExpansionWindow)[i].role = NoRole

\* an expansion that reads one turn more than the last 3
ExpandQueryFourTurns(user_msg, hist) ==
    IF Len(hist) = 0 THEN user_msg
    ELSE IF Len(RecentContext(LastN(hist, ExpansionWindow + 1))) = 0 THEN user_msg
    ELSE Join(<<" ">>, RecentContext(LastN(hist, ExpansionWindow + 1))) \o <<" ">> \o user_msg

\* search_query of chat
ExpandQuery(user_msg, hist) ==
    IF Len(hist) = 0 THEN user_msg
    ELSE IF Len(RecentContext(LastN(hist, ExpansionWindow))) = 0 THEN user_msg
    ELSE Join(<<" ">>, RecentContext(LastN(hist, ExpansionWindow))) \o <<" ">> \o user_msg

\* -------------------------------------------------------- prompt assembler
Turn(role, content) == [role |-> role, content |-> content]

\* enhanced_message of chat / chat_stream
EnhancedMessage(user_msg, course_ctx) ==
    IF Len(course_ctx) > 0 THEN user_msg \o <<"\n\n">> \o course_ctx ELSE user_msg

\* context blocks appended events first
SocialContextPartsEventsFirst(restaurant_ctx, event_ctx) ==
    (IF Len(event_ctx) > 0 THEN <<event_ctx>> ELSE << >>)
    \o (IF Len(restaurant_ctx) > 0 THEN <<restaurant_ctx>> ELSE << >>)

\* context_parts of chat_social
SocialContextParts(restaurant_ctx, event_ctx) ==
    (IF Len(restaurant_ctx) > 0 THEN <<restaurant_ctx>> ELSE << >>)
    \o (IF Len(event_ctx) > 0 THEN <<event_ctx>> ELSE << >>)

\* enhanced_message of chat_social
SocialEnhancedMessage(user_msg, restaurant_ctx, event_ctx) ==
    IF Len(SocialContextParts(restaurant_ctx, event_ctx)) > 0
    THEN user_msg \o <<"\n\n">> \o Join(<<"\n\n">>, SocialContextParts(restaurant_ctx, event_ctx))
    ELSE user_msg

\* messages of chat / chat_stream
AcademicMessages(lang, project_ctx, hist, enhanced) ==
    <<Turn("system", create_system_prompt(lang, project_ctx))>>
    \o LastN(hist, HistoryWindow)
    \o <<Turn("user", enhanced)>>

\* a social message list without the language directive
SocialMessagesPersonaOnly(lang, instruction, hist, enhanced) ==
    <<Turn("system", create_social_system_prompt(lang))>>
    \o LastN(hist, HistoryWindow)
    \o <<Turn("user", enhanced)>>

\* messages / messages_retry of chat_social
SocialMessages(lang, instruction, hist, enhanced) ==
    <<Turn("system", create_social_system_prompt(lang)), Turn("system", instruction)>>
    \o LastN(hist, HistoryWindow)
    \o <<Turn("user", enhanced)>>

\* get_project_context: documents found, no documents, or the database failed
ProjectContexts ==
    { <<"PROJECT DOCUMENTATION:\n", "<documents>">>,
      <<"No project documentation available.">>,
      <<"Project: SAGE - Student Academic Guidance and Engagement system for Kolej Campus">> }

\* ------------------------------------------------------------ turn inputs
CodeAB == <<"A", "B", " ", "1", "2", "3">>
CodeCDE == <<"C", "D", "E", "1", "2", "4">>
CodeDE == <<"D", "E", "4", "4", "4">>

UserMessages == { <<"h", "i">>, CodeAB }

\* the i-th stored turn of a conversation: users and the assistant alternate
HistoryTurn(i) ==
    IF i % 2 = 1
    THEN Turn("user", IF i % 4 = 1 THEN <<"h", "i", " ">> \o CodeAB ELSE <<"a", "b">>)
    ELSE Turn("assistant",
              IF i % 4 = 2 THEN CodeAB \o <<" ", "i", " ">> \o CodeCDE \o <<" ">> \o CodeDE
              ELSE <<"h", "i">>)

WellFormedHistory(n) == [i \in 1..n |-> HistoryTurn(i)]

\* the same history with the role key missing from turn p
MalformedHistory(n, p) ==
    [i \in 1..n |-> IF i = p THEN Turn(NoRole, HistoryTurn(i).content) ELSE HistoryTurn(i)]

\* the same history with turn p stored under the role "system"
OtherRoleHistory(n, p) ==
    [i \in 1..n |-> IF i = p THEN Turn("system", HistoryTurn(i).content) ELSE HistoryTurn(i)]

Histories ==
    {WellFormedHistory(n) : n \in 0..MaxHist}
    \cup {MalformedHistory(n, 1) : n \in 1..MaxHist}
    \cup {MalformedHistory(n, n) : n \in 1..MaxHist}
    \cup {OtherRoleHistory(n, n) : n \in 1..MaxHist}

Functions == {"chat", "chat_stream", "chat_social"}

\* ---- what the collaborators can answer during a turn
NoHits == [error |-> FALSE, has_distances |-> TRUE, hits |-> << >>]
QueryError == [error |-> TRUE, has_distances |-> TRUE, hits |-> << >>]

CourseHit(code, d) ==
    [course_code |-> code, course_title |-> <<"i">>, instructor |-> <<"a">>,
     document |-> <<"a", "b">>, distance |-> d]

TurnCourseResults ==
    { QueryError, NoHits,
      [error |-> FALSE, has_distances |-> TRUE, hits |-> <<CourseHit(CodeAB, 2)>>],
      [error |-> FALSE, has_distances |-> TRUE, hits |-> <<CourseHit(Missing, 2)>>] }

TurnFallbackResults ==
    { [error |-> TRUE, rows |-> << >>],
      [error |-> FALSE, rows |-> << >>],
      [error |-> FALSE,
       rows |-> << [course_code |-> CodeAB, course_title |-> <<"i">>,
                    catalog_description |-> <<"a", "b">>, instructor |-> None] >>] }

CampusDistance(m) == [kind |-> "num", m |-> m]

Venue(name, d, campus) ==
    [metadata |-> [name |-> name, category |-> <<"c">>, cuisine_type |-> Missing,
                   distance_from_campus |-> campus, price |-> <<"$">>,
                   address |-> Missing, tags |-> Missing, phone |-> Missing],
     document |-> <<"a">>, distance |-> d]

Event(title, d) ==
    [metadata |-> [title |-> title, category |-> <<"c">>, event_type |-> Missing,
                   event_date |-> <<"1">>, venue_name |-> Missing,
                   price_info |-> Missing, ticket_url |-> <<"u">>],
     document |-> <<"a">>, distance |-> d]

Hits(hs) == [error |-> FALSE, has_distances |-> TRUE, hits |-> hs]

TurnDiningResults == { QueryError, NoHits, Hits(<<Venue(<<"a">>, 2, CampusDistance(130))>>) }
TurnEntertainmentResults == { QueryError, NoHits, Hits(<<Venue(<<"b">>, 3, CampusDistance(1500))>>) }
TurnEventResults == { QueryError, NoHits, Hits(<<Event(<<"i">>, 4)>>) }

SocialTopKVenues == 10
SocialTopKEvents == 5
CourseTopK == 3

\* texts the completion service can generate
GenTexts == { <<"g", "1">>, <<"g", "2">> }

\* outcome of one blocking completion call: it raised, or it returned a text
\* for which the language classifier would answer cls
Failed == [status |-> "failed", text |-> None, cls |-> "none"]
NotCalled == [status |-> "none", text |-> None, cls |-> "none"]
CompletionOutcomes ==
    {Failed} \cup {[status |-> "ok", text |-> t, cls |-> c] : t \in GenTexts, c \in ClassifierOutcomes}

\* chunk contents of a stream: a delta may carry no content
Chunks == { <<"g">>, <<"h">>, << >> }
RECURSIVE SeqsUpTo(_, _)
SeqsUpTo(S, n) ==
    IF n = 0 THEN {<< >>}
    ELSE SeqsUpTo(S, n - 1) \cup {Append(q, x) : q \in {r \in SeqsUpTo(S, n - 1) : Len(r) = n - 1}, x \in S}

\* ===================================================== search_courses
\* bounds of the retrieval model
MaxTopK == 3
MaxVec == 2
MaxCtxHits == 2

\* re.match(r'^[A-Z]{2,4}\s*\d{3}$', s): $ also matches before a final newline
IsCodeQuery(s) ==
    LET r == UpperRun(s, 1)
        k == 1 + r + SpaceRun(s, 1 + r)
    IN /\ r >= 2 /\ r <= 4
       /\ k + 2 <= Len(s)
       /\ \A j \in k..(k + 2) : s[j] \in Digits
       /\ \/ k + 2 = Len(s)
          \/ (k + 3 = Len(s) /\ s[k + 3] = "\n")

\* WHERE REPLACE(course_code, ' ', '') = query_upper
ExactRows(store, query) ==
    {c \in store : RemoveSpaces(c) = RemoveSpaces(Upper(query))}

\* max(0.0, min(1.0, 1 - distance))
SimilarityScore(distance) == Max(0, Min(10, 10 - distance))

\* the CourseResponse built from the exact row
ExactResponse(code) ==
    [course_code |-> code, has_score |-> TRUE, similarity_score |-> 10]

\* the CourseResponse built from a vector hit
VectorResponse(h, has_distances) ==
    [course_code |-> (IF h.course_code = Missing THEN << >> ELSE h.course_code),
     has_score |-> has_distances,
     similarity_score |-> (IF has_distances THEN SimilarityScore(h.distance) ELSE 0)]

RECURSIVE VectorResponses(_, _, _, _)
\* the loop over the vector results, skipping the exact match
VectorResponses(hits, has_distances, has_exact, exact_code) ==
    IF Len(hits) = 0 THEN << >>
    ELSE (IF has_exact /\ Head(hits).course_code = exact_code THEN << >>
          ELSE <<VectorResponse(Head(hits), has_distances)>>)
         \o VectorResponses(Tail(hits), has_distances, has_exact, exact_code)

\* n_results of the vector query
SearchLimit(top_k, has_exact) ==
    Max(IF has_exact THEN top_k - 1 ELSE top_k, 1)

\* the list search_courses returns; exact is the row fetchone() gave, if any
SearchResult(top_k, has_exact, exact_code, vec) ==
    (IF has_exact THEN <<ExactResponse(exact_code)>> ELSE << >>)
    \o VectorResponses(Prefix(vec.hits, SearchLimit(top_k, has_exact)),
                       vec.has_distances, has_exact, exact_code)

\* ---- inputs
CodeABTab == <<"A", "B", "\t", "1", "2", "3">>
CodeABLower == <<"a", "b", "1", "2", "3">>
SearchQueries == { CodeAB, CodeABLower, CodeABTab, <<"h", "i">> }
StoreCodes == { CodeAB, CodeCDE }
VectorPool == { CourseHit(CodeAB, 3), CourseHit(CodeCDE, 12), CourseHit(<<"D", "E", "1", "1", "1">>, -1) }

\* rankings of distinct hits
Rankings(pool, n) == {q \in SeqsUpTo(pool, n) : \A i, j \in 1..Len(q) : i # j => q[i] # q[j]}

VectorResults ==
    {QueryError} \cup
    {[error |-> FALSE, has_distances |-> hd, hits |-> q] :
        hd \in BOOLEAN, q \in Rankings(VectorPool, MaxVec)}

VARIABLES
    op,             \* the operation that ran last
    sc_query,       \* request.query
    sc_top_k,       \* request.top_k
    sc_store,       \* course codes of the courses table
    sc_db_error,    \* the exact lookup raised
    sc_vector,      \* what the vector index answers, ranked
    sc_exact,       \* exact_match.course_code, Missing when exact_match is None
    sc_status,      \* "ok", or "500" for the HTTPException
    sc_courses,     \* the returned list
    cb_in,          \* what the collections answered to a context builder
    cb_text,        \* the context block returned
    cb_sims         \* the similarities derived while rendering

retrVars == <<op, sc_query, sc_top_k, sc_store, sc_db_error, sc_vector, sc_exact, sc_status,
              sc_courses, cb_in, cb_text, cb_sims>>

NoBuilderInput ==
    [course |-> NoHits, fallback |-> [error |-> FALSE, rows |-> << >>],
     dining |-> NoHits, entertainment |-> NoHits, events |-> NoHits, top_k |-> 0]

SearchIdle ==
    /\ sc_query = << >>
    /\ sc_top_k = 0
    /\ sc_store = {}
    /\ sc_db_error = FALSE
    /\ sc_vector = NoHits
    /\ sc_exact = Missing
    /\ sc_status = "none"
    /\ sc_courses = << >>

BuilderIdle ==
    /\ cb_in = NoBuilderInput
    /\ cb_text = << >>
    /\ cb_sims = << >>

RetrInit == op = "none" /\ SearchIdle /\ BuilderIdle

\* the locals of an earlier call are gone when another operation runs
ClearSearch ==
    /\ sc_query' = << >>
    /\ sc_top_k' = 0
    /\ sc_store' = {}
    /\ sc_db_error' = FALSE
    /\ sc_vector' = NoHits
    /\ sc_exact' = Missing
    /\ sc_status' = "none"
    /\ sc_courses' = << >>

ClearBuilder ==
    /\ cb_in' = NoBuilderInput
    /\ cb_text' = << >>
    /\ cb_sims' = << >>

\* POST /search
search_courses(query, top_k, store, db_error, vec) ==
    /\ op = "none"
    /\ op' = "search_courses"
    /\ sc_query' = query
    /\ sc_top_k' = top_k
    /\ sc_store' = store
    /\ sc_db_error' = db_error
    /\ sc_vector' = vec
    /\ \E exact \in (IF IsCodeQuery(Upper(query)) /\ ~db_error /\ ExactRows(store, query) # {}
                     THEN ExactRows(store, query) ELSE {Missing}) :
         /\ sc_exact' = exact
         /\ IF vec.error
            THEN /\ sc_status' = "500"
                 /\ sc_courses' = << >>
            ELSE /\ sc_status' = "ok"
                 /\ sc_courses' = SearchResult(top_k, exact # Missing, exact, vec)
    /\ ClearBuilder

\* ---- the context builders run on their own
CtxCoursePool == VectorPool \cup { CourseHit(Missing, 3) }
CtxCourseResults ==
    {QueryError} \cup
    {[error |-> FALSE, has_distances |-> hd, hits |-> q] :
        hd \in BOOLEAN, q \in SeqsUpTo(CtxCoursePool, MaxCtxHits)}

\* a and c lie at the same distance from campus
VenuePool ==
    { Venue(<<"a">>, 2, CampusDistance(999)),
      Venue(<<"b">>, 12, CampusDistance(1000)),
      Venue(<<"c">>, -1, CampusDistance(999)),
      Venue(<<"d">>, 3, [kind |-> "absent", m |-> 0]),
      Venue(<<"e">>, 3, CampusDistance(0)),
      Venue(Missing, 3, CampusDistance(130)) }
VenueResults ==
    {QueryError} \cup {Hits(q) : q \in SeqsUpTo(VenuePool, MaxCtxHits)}

EventPool == { Event(<<"i">>, 4), Event(<<"h">>, 15), Event(Missing, 2) }
EventResults ==
    {QueryError} \cup
    {[error |-> FALSE, has_distances |-> hd, hits |-> q] :
        hd \in BOOLEAN, q \in SeqsUpTo(EventPool, MaxCtxHits)}

\* get_course_context_with_embeddings(query, top_k)
BuildCourseContext(res, fb) ==
    /\ op = "none"
    /\ op' = "get_course_context_with_embeddings"
    /\ cb_in' = [NoBuilderInput EXCEPT !.course = res, !.fallback = fb, !.top_k = CourseTopK]
    /\ cb_text' = get_course_context_with_embeddings(res, fb)
    /\ cb_sims' = (IF res.error THEN << >> ELSE CourseSimilarities(res))
    /\ ClearSearch

\* get_restaurant_context(query, top_k)
BuildRestaurantContext(dining, entertainment, top_k) ==
    /\ op = "none"
    /\ op' = "get_restaurant_context"
    /\ cb_in' = [NoBuilderInput EXCEPT !.dining = dining, !.entertainment = entertainment,
                                       !.top_k = top_k]
    /\ cb_text' = get_restaurant_context(dining, entertainment, top_k)
    /\ cb_sims' = (IF \E i \in 1..Len(CollectionResults(dining) \o CollectionResults(entertainment)) :
                         CampusKeyRaises((CollectionResults(dining) \o CollectionResults(entertainment))[i])
                   THEN << >>
                   ELSE [i \in 1..Len(RenderedVenues(dining, entertainment, top_k)) |->
                           Similarity(RenderedVenues(dining, entertainment, top_k)[i].has_distance,
                                      RenderedVenues(dining, entertainment, top_k)[i].distance)])
    /\ ClearSearch

\* get_event_context(query, top_k)
BuildEventContext(res) ==
    /\ op = "none"
    /\ op' = "get_event_context"
    /\ cb_in' = [NoBuilderInput EXCEPT !.events = res, !.top_k = SocialTopKEvents]
    /\ cb_text' = get_event_context(res)
    /\ cb_sims' = (IF res.error THEN << >>
                   ELSE [i \in 1..Len(res.hits) |-> Similarity(res.has_distances, res.hits[i].distance)])
    /\ ClearSearch

\* ================================== state of the endpoints and of the mailbox
MaxStored == 21
MaxConnections == 3

VARIABLES
    db_messages,        \* the messages table, rows of the addressed conversation by created_at
    db_before,          \* those rows when the request arrived
    conv_title,         \* conversation.title
    assistant_type,     \* conversation.assistant_type
    ep_pc,              \* where the running request handler stands
    ep_fn,              \* the handler: add_message or add_message_stream
    ep_msg,             \* the MessageCreate body
    full_response,      \* the accumulator of generate()
    ep_trace,           \* chunks forwarded, the assistant row committed, the done event, in order
    ep_response         \* what the handler answered

epVars == <<db_messages, db_before, conv_title, assistant_type, ep_pc, ep_fn, ep_msg, full_response, ep_trace,
           ep_response>>

NoMessage == [role |-> "none", content |-> << >>]

EpInit ==
    /\ db_messages = << >>
    /\ db_before = << >>
    /\ conv_title = << >>
    /\ assistant_type = "none"
    /\ ep_pc = "idle"
    /\ ep_fn = "none"
    /\ ep_msg = NoMessage
    /\ full_response = << >>
    /\ ep_trace = << >>
    /\ ep_response = "none"

VARIABLES
    im_connection,      \* self.connection
    im_email_address,   \* self.email_address
    im_is_connected,    \* self.is_connected
    im_created,         \* IMAP4_SSL objects created so far
    im_op,              \* the method that ran last
    im_result           \* what it returned or raised

imapVars == <<im_connection, im_email_address, im_is_connected, im_created, im_op, im_result>>

NoConnection == [id |-> 0, state |-> "none", account |-> "none"]

ImapInit ==
    /\ im_connection = NoConnection
    /\ im_email_address = "none"
    /\ im_is_connected = FALSE
    /\ im_created = 0
    /\ im_op = "none"
    /\ im_result = "none"

\* ---- turns handled at the same time on the one GroqAcademicService instance
MaxConcurrent == 2
TurnIds == 1..MaxConcurrent

VARIABLES
    svc,                \* the fields of the shared service instance
    turns               \* the locals of each turn in progress

concVars == <<svc, turns>>

\* the instance after __init__
ServiceInit ==
    [api_key |-> "<GROQ_API_KEY>", client |-> "Groq", model |-> "llama-3.3-70b-versatile",
     embedding_model |-> "intfloat/e5-large-v2", chroma_client |-> "HttpClient",
     db_config |-> "postgres"]

IdleTurn ==
    [pc |-> "idle", fn |-> "none", msg |-> << >>, hist |-> << >>, language |-> "none",
     project_context |-> << >>, query |-> << >>, course_context |-> << >>,
     restaurant_context |-> << >>, event_context |-> << >>, calls |-> << >>,
     got |-> << >>, result |-> None]

ConcInit ==
    /\ svc = ServiceInit
    /\ turns = [i \in TurnIds |-> IdleTurn]

\* ---- extract_events_with_llm
MaxEmails == 11

VARIABLES
    ex_pc,              \* where extract_events_with_llm stands
    ex_emails,          \* len(emails)
    ex_batch_num,       \* batch_num of the batch in progress
    ex_retry_count,     \* retry_count of the batch in progress
    ex_batch_calls,     \* completion calls made for the batch in progress
    ex_calls,           \* completion calls made by this invocation
    ex_wait,            \* seconds of the last time.sleep of the retry loop
    ex_skipped,         \* batches left without a response
    ex_parsed           \* batches whose response was handled

exVars == <<ex_pc, ex_emails, ex_batch_num, ex_retry_count, ex_batch_calls, ex_calls, ex_wait,
           ex_skipped, ex_parsed>>

ExInit ==
    /\ ex_pc = "idle"
    /\ ex_emails = 0
    /\ ex_batch_num = 0
    /\ ex_retry_count = 0
    /\ ex_batch_calls = 0
    /\ ex_calls = 0
    /\ ex_wait = 0
    /\ ex_skipped = 0
    /\ ex_parsed = 0

\* what an operation of the completion service leaves alone
otherVars == <<retrVars, epVars, imapVars, concVars, exVars>>

\* ============================================================ one user turn
VARIABLES
    pc,                 \* where the running call stands
    fn,                 \* the method called: chat, chat_stream or chat_social
    user_message,
    user_cls,           \* what the classifier answered for user_message
    history,            \* conversation_history, the caller's list
    include_courses,
    language,           \* detect_language(user_message)
    project_context,
    search_query,       \* the query handed to the retriever
    course_context,
    restaurant_context,
    event_context,
    calls,              \* completion calls issued in this turn, in order
    first,              \* outcome of the first completion call
    retry,              \* outcome of the language-retry completion call
    result,             \* the returned string (None while running)
    returned_at,        \* the return statement that produced result
    raised,             \* the exception that left the method, "" if none
    stream,             \* chunks the completion stream has still to deliver
    stream_error,       \* the stream raises once those chunks are consumed
    yielded,            \* chunks chat_stream has yielded so far
    produced            \* chunks the completion stream has delivered so far

turnVars == <<pc, fn, user_message, user_cls, history, include_courses, language, project_context,
              search_query, course_context, restaurant_context, event_context, calls,
              first, retry, result, returned_at, raised, stream, stream_error, yielded, produced>>

TurnInit ==
    /\ pc = "idle"
    /\ fn = "none"
    /\ user_message = << >>
    /\ user_cls = "none"
    /\ history = << >>
    /\ include_courses = TRUE
    /\ language = "none"
    /\ project_context = << >>
    /\ search_query = << >>
    /\ course_context = << >>
    /\ restaurant_context = << >>
    /\ event_context = << >>
    /\ calls = << >>
    /\ first = NotCalled
    /\ retry = NotCalled
    /\ result = None
    /\ returned_at = "none"
    /\ raised = ""
    /\ stream = << >>
    /\ stream_error = FALSE
    /\ yielded = << >>
    /\ produced = << >>

\* the entry of chat / chat_stream / chat_social with its arguments
Invoke(f, msg, hist, inc) ==
    /\ pc = "idle"
    /\ pc' = "detect"
    /\ fn' = f
    /\ user_message' = msg
    /\ history' = hist
    /\ include_courses' = inc
    /\ UNCHANGED <<user_cls, language, project_context, search_query, course_context,
                   restaurant_context, event_context, calls, first, retry, result,
                   returned_at, raised, stream, stream_error, yielded, produced>>

\* a caller invokes chat / chat_stream / chat_social
Call(f, msg, hist, inc) ==
    /\ Invoke(f, msg, hist, inc)
    /\ UNCHANGED otherVars

\* language = self.detect_language(user_message)
DetectUserLanguage ==
    /\ UNCHANGED otherVars
    /\ pc = "detect"
    /\ \E o \in ClassifierOutcomes :
         /\ user_cls' = o
         /\ IF detect_language(o) = "RAISE"
            THEN /\ pc' = "raised"
                 /\ raised' = o
                 /\ UNCHANGED language
            ELSE /\ pc' = "prepare"
                 /\ language' = detect_language(o)
                 /\ UNCHANGED raised
    /\ UNCHANGED <<fn, user_message, history, include_courses, project_context, search_query,
                   course_context, restaurant_context, event_context, calls, first, retry,
                   result, returned_at, stream, stream_error, yielded, produced>>

\* get_project_context and the search query: expanded in chat, raw elsewhere
PrepareQuery ==
    /\ UNCHANGED otherVars
    /\ pc = "prepare"
    /\ IF fn = "chat_social"
       THEN /\ search_query' = user_message
            /\ pc' = "retrieve"
            /\ UNCHANGED <<project_context, raised>>
       ELSE \E pcx \in ProjectContexts :
              /\ project_context' = pcx
              /\ IF fn = "chat" /\ ExpansionRaises(history)
                 THEN /\ pc' = "raised"
                      /\ raised' = "KeyError"
                      /\ UNCHANGED search_query
                 ELSE /\ pc' = "retrieve"
                      /\ search_query' = (IF fn = "chat" THEN ExpandQuery(user_message, history)
                                          ELSE user_message)
                      /\ UNCHANGED raised
    /\ UNCHANGED <<fn, user_message, user_cls, history, include_courses, language, course_context,
                   restaurant_context, event_context, calls, first, retry, result,
                   returned_at, stream, stream_error, yielded, produced>>

\* the context builders query the collections with search_query
Retrieve ==
    /\ UNCHANGED otherVars
    /\ pc = "retrieve"
    /\ pc' = "first_attempt"
    /\ IF fn = "chat_social"
       THEN /\ \E d \in TurnDiningResults, e \in TurnEntertainmentResults :
                 restaurant_context' = get_restaurant_context(d, e, SocialTopKVenues)
            /\ \E ev \in TurnEventResults : event_context' = get_event_context(ev)
            /\ UNCHANGED course_context
       ELSE /\ IF include_courses
               THEN \E res \in TurnCourseResults, fb \in TurnFallbackResults :
                       course_context' = get_course_context_with_embeddings(res, fb)
               ELSE course_context' = << >>
            /\ UNCHANGED <<restaurant_context, event_context>>
    /\ UNCHANGED <<fn, user_message, user_cls, history, include_courses, language, project_context,
                   search_query, calls, first, retry, result, returned_at, raised, stream,
                   stream_error, yielded, produced>>

CompletionCall(messages, temperature, streaming) ==
    [messages |-> messages, temperature |-> temperature, stream |-> streaming]

\* a message list whose final user turn is built from the expanded query
FirstMessagesFromSearchQuery ==
    IF fn = "chat_social"
    THEN SocialMessages(language, lang_instruction(language), history,
                        SocialEnhancedMessage(user_message, restaurant_context, event_context))
    ELSE AcademicMessages(language, project_context, history,
                          EnhancedMessage(search_query, course_context))

FirstMessages ==
    IF fn = "chat_social"
    THEN SocialMessages(language, lang_instruction(language), history,
                        SocialEnhancedMessage(user_message, restaurant_context, event_context))
    ELSE AcademicMessages(language, project_context, history,
                          EnhancedMessage(user_message, course_context))

\* a retry list whose final user turn has lost the context blocks
RetryMessagesWithoutContext ==
    SocialMessages(language, retry_instruction(language), history, user_message)

RetryMessages ==
    SocialMessages(language, retry_instruction(language), history,
                   SocialEnhancedMessage(user_message, restaurant_context, event_context))

Returns(text, at) ==
    /\ pc' = "done"
    /\ result' = text
    /\ returned_at' = at

\* chat: one blocking completion call, whose text is returned as it is
ChatComplete ==
    /\ UNCHANGED otherVars
    /\ pc = "first_attempt" /\ fn = "chat"
    /\ calls' = Append(calls, CompletionCall(FirstMessages, TempChat, FALSE))
    /\ \E out \in CompletionOutcomes :
         /\ first' = out
         /\ IF out.status = "ok"
            THEN Returns(out.text, "resp_first")
            ELSE Returns(UnavailableApology(language), "except")
    /\ UNCHANGED <<fn, user_message, user_cls, history, include_courses, language, project_context,
                   search_query, course_context, restaurant_context, event_context, retry,
                   raised, stream, stream_error, yielded, produced>>

\* chat_social: the first completion call and the check of its language
SocialFirstAttempt ==
    /\ UNCHANGED otherVars
    /\ pc = "first_attempt" /\ fn = "chat_social"
    /\ calls' = Append(calls, CompletionCall(FirstMessages, TempSocial, FALSE))
    /\ \E out \in CompletionOutcomes :
         /\ first' = out
         /\ IF out.status = "failed" \/ detect_language(out.cls) = "RAISE"
            THEN Returns(UnavailableApology(language), "except")
            ELSE IF detect_language(out.cls) = language
                 THEN Returns(out.text, "resp_first")
                 ELSE /\ pc' = "retry"
                      /\ UNCHANGED <<result, returned_at>>
    /\ UNCHANGED <<fn, user_message, user_cls, history, include_courses, language, project_context,
                   search_query, course_context, restaurant_context, event_context, retry,
                   raised, stream, stream_error, yielded, produced>>

\* a retry that asks again for as long as the language is wrong
SocialRetryUnbounded ==
    /\ UNCHANGED otherVars
    /\ pc = "retry"
    /\ calls' = Append(calls, CompletionCall(RetryMessages, TempRetry, FALSE))
    /\ \E out \in CompletionOutcomes :
         /\ retry' = out
         /\ IF out.status = "failed" \/ detect_language(out.cls) = "RAISE"
            THEN Returns(UnavailableApology(language), "except")
            ELSE IF detect_language(out.cls) = language
                 THEN Returns(out.text, "resp_retry")
                 ELSE UNCHANGED <<pc, result, returned_at>>
    /\ UNCHANGED <<fn, user_message, user_cls, history, include_courses, language, project_context,
                   search_query, course_context, restaurant_context, event_context, first,
                   raised, stream, stream_error, yielded, produced>>

\* a retry whose answer is dropped in favour of the first response
SocialRetryReturnsFirst ==
    /\ UNCHANGED otherVars
    /\ pc = "retry"
    /\ calls' = Append(calls, CompletionCall(RetryMessages, TempRetry, FALSE))
    /\ \E out \in CompletionOutcomes :
         /\ retry' = out
         /\ IF out.status = "failed" \/ detect_language(out.cls) = "RAISE"
            THEN Returns(UnavailableApology(language), "except")
            ELSE IF detect_language(out.cls) = language
                 THEN Returns(first.text, "resp_retry")
                 ELSE Returns(MismatchApology(language), "fallback")
    /\ UNCHANGED <<fn, user_message, user_cls, history, include_courses, language, project_context,
                   search_query, course_context, restaurant_context, event_context, first,
                   raised, stream, stream_error, yielded, produced>>

\* a retry whose failure is answered with the first response
SocialRetryFailureKeepsFirst ==
    /\ UNCHANGED otherVars
    /\ pc = "retry"
    /\ calls' = Append(calls, CompletionCall(RetryMessages, TempRetry, FALSE))
    /\ \E out \in CompletionOutcomes :
         /\ retry' = out
         /\ IF out.status = "failed" \/ detect_language(out.cls) = "RAISE"
            THEN Returns(first.text, "except")
            ELSE IF detect_language(out.cls) = language
                 THEN Returns(out.text, "resp_retry")
                 ELSE Returns(MismatchApology(language), "fallback")
    /\ UNCHANGED <<fn, user_message, user_cls, history, include_courses, language, project_context,
                   search_query, course_context, restaurant_context, event_context, first,
                   raised, stream, stream_error, yielded, produced>>

\* chat_social: the retry with the urgent instruction at temperature 0.0
SocialRetry ==
    /\ UNCHANGED otherVars
    /\ pc = "retry"
    /\ calls' = Append(calls, CompletionCall(RetryMessages, TempRetry, FALSE))
    /\ \E out \in CompletionOutcomes :
         /\ retry' = out
         /\ IF out.status = "failed" \/ detect_language(out.cls) = "RAISE"
            THEN Returns(UnavailableApology(language), "except")
            ELSE IF detect_language(out.cls) = language
                 THEN Returns(out.text, "resp_retry")
                 ELSE Returns(MismatchApology(language), "fallback")
    /\ UNCHANGED <<fn, user_message, user_cls, history, include_courses, language, project_context,
                   search_query, course_context, restaurant_context, event_context, first,
                   raised, stream, stream_error, yielded, produced>>

\* chat_stream: the streaming completion call is opened
StreamOpen ==
    /\ UNCHANGED otherVars
    /\ pc = "first_attempt" /\ fn = "chat_stream"
    /\ calls' = Append(calls, CompletionCall(FirstMessages, TempStream, TRUE))
    /\ \/ /\ first' = Failed
          /\ yielded' = Append(yielded, UnavailableApology(language))
          /\ pc' = "done"
          /\ returned_at' = "except"
          /\ UNCHANGED <<stream, stream_error>>
       \/ /\ first' = [status |-> "ok", text |-> None, cls |-> "none"]
          /\ \E cs \in SeqsUpTo(Chunks, MaxChunks), err \in BOOLEAN :
               /\ stream' = cs
               /\ stream_error' = err
          /\ pc' = "streaming"
          /\ UNCHANGED <<yielded, returned_at>>
    /\ UNCHANGED <<fn, user_message, user_cls, history, include_courses, language, project_context,
                   search_query, course_context, restaurant_context, event_context, retry,
                   result, raised, produced>>

\* chat_stream: one step of "for chunk in stream"
StreamNext ==
    /\ UNCHANGED otherVars
    /\ pc = "streaming"
    /\ IF Len(stream) > 0
       THEN /\ stream' = Tail(stream)
            /\ produced' = Append(produced, Head(stream))
            /\ yielded' = (IF Len(Head(stream)) > 0 THEN Append(yielded, Head(stream))
                           ELSE yielded)
            /\ UNCHANGED <<pc, returned_at>>
       ELSE /\ pc' = "done"
            /\ IF stream_error
               THEN /\ yielded' = Append(yielded, UnavailableApology(language))
                    /\ returned_at' = "except"
               ELSE /\ returned_at' = "exhausted"
                    /\ UNCHANGED yielded
            /\ UNCHANGED <<stream, produced>>
    /\ UNCHANGED <<fn, user_message, user_cls, history, include_courses, language, project_context,
                   search_query, course_context, restaurant_context, event_context, calls,
                   first, retry, result, raised, stream_error>>

\* the locals of the call are gone
ResetTurn ==
    /\ pc' = "idle"
    /\ fn' = "none"
    /\ user_message' = << >>
    /\ user_cls' = "none"
    /\ history' = << >>
    /\ include_courses' = TRUE
    /\ language' = "none"
    /\ project_context' = << >>
    /\ search_query' = << >>
    /\ course_context' = << >>
    /\ restaurant_context' = << >>
    /\ event_context' = << >>
    /\ calls' = << >>
    /\ first' = NotCalled
    /\ retry' = NotCalled
    /\ result' = None
    /\ returned_at' = "none"
    /\ raised' = ""
    /\ stream' = << >>
    /\ stream_error' = FALSE
    /\ yielded' = << >>
    /\ produced' = << >>

\* the caller has its answer (or its exception); the service is called again
Finish ==
    /\ UNCHANGED otherVars
    /\ pc \in {"done", "raised"}
    /\ ResetTurn

vars == <<turnVars, retrVars, epVars, imapVars, concVars, exVars>>

Init == TurnInit /\ RetrInit /\ EpInit /\ ImapInit /\ ConcInit /\ ExInit

Next ==
    \/ \E f \in Functions, msg \in UserMessages, hist \in Histories, inc \in BOOLEAN :
         Call(f, msg, hist, inc)
    \/ DetectUserLanguage
    \/ PrepareQuery
    \/ Retrieve
    \/ ChatComplete
    \/ SocialFirstAttempt
    \/ SocialRetry
    \/ StreamOpen
    \/ StreamNext
    \/ Finish

Spec == Init /\ [][Next]_vars

\* ---- the retrieval operations, called on their own
SearchCourses ==
    /\ op = "none"
    /\ UNCHANGED <<turnVars, epVars, imapVars, concVars, exVars>>
    /\ \E query \in SearchQueries, top_k \in 1..MaxTopK, store \in SUBSET StoreCodes,
          db_error \in BOOLEAN, vec \in VectorResults :
         search_courses(query, top_k, store, db_error, vec)

CourseContext ==
    /\ op = "none"
    /\ UNCHANGED <<turnVars, epVars, imapVars, concVars, exVars>>
    /\ \E res \in CtxCourseResults, fb \in TurnFallbackResults : BuildCourseContext(res, fb)

RestaurantContext ==
    /\ op = "none"
    /\ UNCHANGED <<turnVars, epVars, imapVars, concVars, exVars>>
    /\ \E dining \in VenueResults, entertainment \in VenueResults, top_k \in 1..MaxTopK :
         BuildRestaurantContext(dining, entertainment, top_k)

EventContext ==
    /\ op = "none"
    /\ UNCHANGED <<turnVars, epVars, imapVars, concVars, exVars>>
    /\ \E res \in EventResults : BuildEventContext(res)

\* the operation has returned; its locals are dropped
RetrievalReturn ==
    /\ op # "none"
    /\ op' = "none"
    /\ ClearSearch
    /\ ClearBuilder
    /\ UNCHANGED <<turnVars, epVars, imapVars, concVars, exVars>>

NextRetrieval ==
    \/ RetrievalReturn
    \/ SearchCourses
    \/ CourseContext
    \/ RestaurantContext
    \/ EventContext

SpecRetrieval == Init /\ [][NextRetrieval]_vars

\* =============================================== the conversation endpoints
HistoryLimit == 20
TitleLen == 50
NewConversationTitle == <<"New conversation">>

\* a conversation of the messages table with n rows
StoredConversation(n, t) ==
    [messages |-> WellFormedHistory(n),
     title |-> (IF n = 0 THEN NewConversationTitle ELSE HistoryTurn(1).content),
     assistant_type |-> t]

StoredConversations ==
    {StoredConversation(n, t) : n \in 0..MaxStored, t \in {"academic", "social"}}

\* MessageCreate bodies
MessageBodies ==
    {Turn("user", c) : c \in UserMessages} \cup {Turn("assistant", <<"h", "i">>)}

\* conversation.title after the message was added
NewTitle(old, msg) ==
    IF old = NewConversationTitle /\ msg.role = "user"
    THEN (IF Len(msg.content) > TitleLen THEN Prefix(msg.content, TitleLen) \o <<"...">>
          ELSE msg.content)
    ELSE old

\* add_message: all rows by created_at, without the last one
FullHistory(rows) == SubSeq(rows, 1, Len(rows) - 1)

\* add_message_stream: the first 20 rows by created_at, without the last of them
LimitedHistory(rows) ==
    SubSeq(Prefix(rows, HistoryLimit), 1, Len(Prefix(rows, HistoryLimit)) - 1)

RECURSIVE ConcatAll(_)
\* the text built by appending the chunks one after the other
ConcatAll(chunks) ==
    IF Len(chunks) = 0 THEN << >> ELSE Head(chunks) \o ConcatAll(Tail(chunks))

\* chunks generate() has forwarded to the client
Forwarded == Len(SelectSeq(ep_trace, LAMBDA e : e.ev = "chunk"))

ChunkEvent(c) == [ev |-> "chunk", data |-> c]
PersistEvent(c) == [ev |-> "persist", data |-> c]
DoneEvent == [ev |-> "done", data |-> << >>]

\* the user message is added and committed; commit_ok is whether db.commit() worked
SaveUserMessage(conv, msg, commit_ok) ==
    /\ ep_msg' = msg
    /\ assistant_type' = conv.assistant_type
    /\ db_before' = conv.messages
    /\ db_messages' = (IF commit_ok THEN Append(conv.messages, msg) ELSE conv.messages)
    /\ conv_title' = (IF commit_ok THEN NewTitle(conv.title, msg) ELSE conv.title)

\* POST /{conversation_id}/messages, up to the call of the assistant
add_message(conv, msg, commit_ok) ==
    /\ ep_pc = "idle"
    /\ ep_fn' = "add_message"
    /\ SaveUserMessage(conv, msg, commit_ok)
    /\ IF ~commit_ok
       THEN /\ ep_pc' = "responded"
            /\ ep_response' = "500"
            /\ UNCHANGED turnVars
       ELSE IF msg.role = "user" /\ conv.assistant_type \in {"academic", "social"}
            THEN /\ ep_pc' = "turn"
                 /\ ep_response' = "none"
                 /\ Invoke(IF conv.assistant_type = "academic" THEN "chat" ELSE "chat_social",
                           msg.content, FullHistory(Append(conv.messages, msg)), TRUE)
            ELSE /\ ep_pc' = "responded"
                 /\ ep_response' = "db_message"
                 /\ UNCHANGED turnVars
    /\ UNCHANGED <<full_response, ep_trace, retrVars, imapVars, concVars, exVars>>

\* a handler that stores the answer in the place of the user message
SaveResponseOverUserMessage ==
    /\ ep_pc = "turn" /\ ep_fn = "add_message" /\ pc = "done"
    /\ ep_pc' = "responded"
    /\ \E commit_ok \in BOOLEAN :
         IF commit_ok
         THEN /\ db_messages' = Append(db_before, Turn("assistant", result))
              /\ ep_trace' = Append(ep_trace, PersistEvent(result))
              /\ ep_response' = "ai_message"
         ELSE /\ ep_response' = "db_message"
              /\ UNCHANGED <<db_messages, ep_trace>>
    /\ UNCHANGED <<db_before, conv_title, assistant_type, ep_fn, ep_msg, full_response>>
    /\ UNCHANGED <<turnVars, retrVars, imapVars, concVars, exVars>>

\* add_message: the answer of the assistant is stored and returned; when the
\* commit fails the handler returns the user message
SaveResponse ==
    /\ ep_pc = "turn" /\ ep_fn = "add_message" /\ pc = "done"
    /\ ep_pc' = "responded"
    /\ \E commit_ok \in BOOLEAN :
         IF commit_ok
         THEN /\ db_messages' = Append(db_messages, Turn("assistant", result))
              /\ ep_trace' = Append(ep_trace, PersistEvent(result))
              /\ ep_response' = "ai_message"
         ELSE /\ ep_response' = "db_message"
              /\ UNCHANGED <<db_messages, ep_trace>>
    /\ UNCHANGED <<db_before, conv_title, assistant_type, ep_fn, ep_msg, full_response>>
    /\ UNCHANGED <<turnVars, retrVars, imapVars, concVars, exVars>>

\* add_message: an exception of the assistant is swallowed, the user message returned
AbsorbFailure ==
    /\ ep_pc = "turn" /\ ep_fn = "add_message" /\ pc = "raised"
    /\ ep_pc' = "responded"
    /\ ep_response' = "db_message"
    /\ UNCHANGED <<db_messages, db_before, conv_title, assistant_type, ep_fn, ep_msg,
                   full_response, ep_trace>>
    /\ UNCHANGED <<turnVars, retrVars, imapVars, concVars, exVars>>

\* POST /{conversation_id}/messages/stream, up to the StreamingResponse
add_message_stream(conv, msg, commit_ok) ==
    /\ ep_pc = "idle"
    /\ ep_fn' = "add_message_stream"
    /\ SaveUserMessage(conv, msg, commit_ok)
    /\ IF ~commit_ok
       THEN /\ ep_pc' = "responded"
            /\ ep_response' = "500"
            /\ UNCHANGED turnVars
       ELSE IF msg.role = "user" /\ conv.assistant_type = "academic"
            THEN /\ ep_pc' = "turn"
                 /\ ep_response' = "stream"
                 /\ Invoke("chat_stream", msg.content,
                           LimitedHistory(Append(conv.messages, msg)), TRUE)
            ELSE /\ ep_pc' = "responded"
                 /\ ep_response' = "saved"
                 /\ UNCHANGED turnVars
    /\ UNCHANGED <<full_response, ep_trace, retrVars, imapVars, concVars, exVars>>

\* generate(): chat_stream resumes only after its last chunk was forwarded
StreamResume ==
    /\ Forwarded = Len(yielded)
    /\ StreamNext

\* generate(): full_response = chunk, the accumulated text is lost
ForwardChunkOverwrites ==
    /\ ep_pc = "turn" /\ ep_fn = "add_message_stream"
    /\ Forwarded < Len(yielded)
    /\ full_response' = yielded[Forwarded + 1]
    /\ ep_trace' = Append(ep_trace, ChunkEvent(yielded[Forwarded + 1]))
    /\ UNCHANGED <<db_messages, db_before, conv_title, assistant_type, ep_pc, ep_fn, ep_msg,
                   ep_response>>
    /\ UNCHANGED <<turnVars, retrVars, imapVars, concVars, exVars>>

\* generate(): full_response += chunk; the chunk is sent as a data event
ForwardChunk ==
    /\ ep_pc = "turn" /\ ep_fn = "add_message_stream"
    /\ Forwarded < Len(yielded)
    /\ full_response' = full_response \o yielded[Forwarded + 1]
    /\ ep_trace' = Append(ep_trace, ChunkEvent(yielded[Forwarded + 1]))
    /\ UNCHANGED <<db_messages, db_before, conv_title, assistant_type, ep_pc, ep_fn, ep_msg,
                   ep_response>>
    /\ UNCHANGED <<turnVars, retrVars, imapVars, concVars, exVars>>

\* generate(): chat_stream is exhausted, the assistant message is committed
PersistStreamed ==
    /\ ep_pc = "turn" /\ ep_fn = "add_message_stream"
    /\ pc = "done" /\ Forwarded = Len(yielded)
    /\ \E commit_ok \in BOOLEAN :
         IF commit_ok
         THEN /\ db_messages' = Append(db_messages, Turn("assistant", full_response))
              /\ ep_trace' = Append(ep_trace, PersistEvent(full_response))
              /\ ep_pc' = "persisted"
              /\ UNCHANGED ep_response
         ELSE /\ ep_pc' = "responded"
              /\ ep_response' = "aborted"
              /\ UNCHANGED <<db_messages, ep_trace>>
    /\ UNCHANGED <<db_before, conv_title, assistant_type, ep_fn, ep_msg, full_response>>
    /\ UNCHANGED <<turnVars, retrVars, imapVars, concVars, exVars>>

\* generate(): the done event closes the stream
EmitDone ==
    /\ ep_pc = "persisted"
    /\ ep_pc' = "responded"
    /\ ep_trace' = Append(ep_trace, DoneEvent)
    /\ UNCHANGED <<db_messages, db_before, conv_title, assistant_type, ep_fn, ep_msg,
                   full_response, ep_response>>
    /\ UNCHANGED <<turnVars, retrVars, imapVars, concVars, exVars>>

\* generate(): an exception of chat_stream ends the response stream
StreamAbort ==
    /\ ep_pc = "turn" /\ ep_fn = "add_message_stream" /\ pc = "raised"
    /\ ep_pc' = "responded"
    /\ ep_response' = "aborted"
    /\ UNCHANGED <<db_messages, db_before, conv_title, assistant_type, ep_fn, ep_msg,
                   full_response, ep_trace>>
    /\ UNCHANGED <<turnVars, retrVars, imapVars, concVars, exVars>>

\* the StreamingResponse exists but generate() has not run yet
GeneratorNotStarted ==
    ep_pc = "turn" /\ ep_fn = "add_message_stream" /\ pc = "detect"

\* generate() is suspended at "yield data": the last chunk chat_stream yielded
\* (a content chunk or the apology) was forwarded and nothing was resumed since
SuspendedAtChunk ==
    /\ ep_pc = "turn" /\ ep_fn = "add_message_stream"
    /\ Forwarded >= 1 /\ Forwarded = Len(yielded)
    /\ \/ pc = "streaming" /\ Len(produced) > 0 /\ Len(produced[Len(produced)]) > 0
       \/ pc = "done" /\ returned_at = "except"

\* generate() is suspended at its last yield, the done event
SuspendedAtDone ==
    /\ ep_pc = "responded" /\ ep_fn = "add_message_stream" /\ ep_response = "stream"
    /\ Len(ep_trace) > 0 /\ ep_trace[Len(ep_trace)] = DoneEvent

\* a cancellation whose cleanup stores the partial text with an apology
StreamCancelStoresApology ==
    /\ GeneratorNotStarted \/ SuspendedAtChunk \/ SuspendedAtDone
    /\ ep_pc' = "responded"
    /\ ep_response' = "cancelled"
    /\ db_messages' = Append(db_messages,
                             Turn("assistant", full_response \o UnavailableApology("en")))
    /\ UNCHANGED <<db_before, conv_title, assistant_type, ep_fn, ep_msg,
                   full_response, ep_trace>>
    /\ UNCHANGED <<turnVars, retrVars, imapVars, concVars, exVars>>

\* the client went away: generate() is closed where it is suspended
\* (GeneratorExit at the yield); nothing after the yield runs
StreamCancel ==
    /\ GeneratorNotStarted \/ SuspendedAtChunk \/ SuspendedAtDone
    /\ ep_pc' = "responded"
    /\ ep_response' = "cancelled"
    /\ UNCHANGED <<db_messages, db_before, conv_title, assistant_type, ep_fn, ep_msg,
                   full_response, ep_trace>>
    /\ UNCHANGED <<turnVars, retrVars, imapVars, concVars, exVars>>

\* the request is over; the locals of the handler are dropped
EndRequest ==
    /\ ep_pc = "responded"
    /\ ep_pc' = "idle"
    /\ ep_fn' = "none"
    /\ ep_msg' = NoMessage
    /\ db_messages' = << >>
    /\ db_before' = << >>
    /\ conv_title' = << >>
    /\ assistant_type' = "none"
    /\ full_response' = << >>
    /\ ep_trace' = << >>
    /\ ep_response' = "none"
    /\ ResetTurn
    /\ UNCHANGED <<retrVars, imapVars, concVars, exVars>>

AddMessage ==
    /\ ep_pc = "idle"
    /\ \E conv \in StoredConversations, msg \in MessageBodies, commit_ok \in BOOLEAN :
         add_message(conv, msg, commit_ok)

AddMessageStream ==
    /\ ep_pc = "idle"
    /\ \E conv \in StoredConversations, msg \in MessageBodies, commit_ok \in BOOLEAN :
         add_message_stream(conv, msg, commit_ok)

NextEndpoint ==
    \/ AddMessage
    \/ AddMessageStream
    \/ DetectUserLanguage
    \/ PrepareQuery
    \/ Retrieve
    \/ ChatComplete
    \/ SocialFirstAttempt
    \/ SocialRetry
    \/ StreamOpen
    \/ StreamResume
    \/ ForwardChunk
    \/ PersistStreamed
    \/ EmitDone
    \/ StreamAbort
    \/ StreamCancel
    \/ SaveResponse
    \/ AbsorbFailure
    \/ EndRequest

SpecEndpoint == Init /\ [][NextEndpoint]_vars

\* ================================================= the IMAP mailbox session
\* im_connection is [id |-> n, state |-> s, account |-> a]: the n-th IMAP4_SSL
\* object, "open" after the SSL handshake, "auth" after login, "logout" after
\* logout; NoConnection stands for None.
Accounts == {"a@gmail.com", "b@gmail.com"}

\* how a call of connect goes: it succeeds, IMAP4_SSL(...) raises, or login raises
ConnectOutcomes ==
    {"ok", "ssl_eof", "ssl_failed", "login_auth_failed", "login_imap_error",
     "login_eof", "login_failed"}

\* the message of the exception connect raises
ConnectError(outcome) ==
    CASE outcome = "login_auth_failed" -> "Authentication failed"
      [] outcome = "login_imap_error" -> "IMAP error"
      [] outcome \in {"ssl_eof", "login_eof"} -> "Connection closed by server"
      [] OTHER -> "IMAP connection failed"

\* the existing connection after self.connection.logout() was tried
AfterLogout(conn, logout_ok) ==
    IF conn # NoConnection /\ logout_ok THEN [conn EXCEPT !.state = "logout"] ELSE conn

\* IMAPEmailService.connect(email_address, password)
connect(email, outcome, logout_ok) ==
    /\ im_op' = "connect"
    /\ IF outcome \in {"ssl_eof", "ssl_failed"}
       THEN /\ im_connection' = AfterLogout(im_connection, logout_ok)
            /\ im_result' = ConnectError(outcome)
            /\ UNCHANGED <<im_created, im_email_address, im_is_connected>>
       ELSE /\ im_created < MaxConnections
            /\ im_created' = im_created + 1
            /\ IF outcome = "ok"
               THEN /\ im_connection' = [id |-> im_created + 1, state |-> "auth", account |-> email]
                    /\ im_email_address' = email
                    /\ im_is_connected' = TRUE
                    /\ im_result' = "True"
               ELSE /\ im_connection' = [id |-> im_created + 1, state |-> "open", account |-> "none"]
                    /\ im_result' = ConnectError(outcome)
                    /\ UNCHANGED <<im_email_address, im_is_connected>>

\* IMAPEmailService.disconnect()
disconnect ==
    /\ im_op' = "disconnect"
    /\ im_connection' = NoConnection
    /\ im_email_address' = "none"
    /\ im_is_connected' = FALSE
    /\ im_result' = "None"
    /\ UNCHANGED im_created

\* IMAPEmailService.fetch_emails(days, max_results); server_ok is whether the
\* server still serves the session
fetch_emails(server_ok) ==
    /\ im_op' = "fetch_emails"
    /\ im_result' = (IF ~im_is_connected THEN "Not connected. Please login first."
                     ELSE IF im_connection.state = "auth" /\ server_ok THEN "emails"
                     ELSE IF im_connection.state = "auth" THEN "Connection lost"
                     ELSE "Failed to fetch emails")
    /\ UNCHANGED <<im_connection, im_email_address, im_is_connected, im_created>>

Connect ==
    /\ \E email \in Accounts, outcome \in ConnectOutcomes, logout_ok \in BOOLEAN :
         connect(email, outcome, logout_ok)
    /\ UNCHANGED <<turnVars, retrVars, epVars, concVars, exVars>>

Disconnect ==
    /\ disconnect
    /\ UNCHANGED <<turnVars, retrVars, epVars, concVars, exVars>>

FetchEmails ==
    /\ \E server_ok \in BOOLEAN : fetch_emails(server_ok)
    /\ UNCHANGED <<turnVars, retrVars, epVars, concVars, exVars>>

NextImap ==
    \/ Connect
    \/ Disconnect
    \/ FetchEmails

SpecImap == Init /\ [][NextImap]_vars

\* ===================================== turns sharing the one service instance
\* conversations.py creates one GroqAcademicService for all requests. A turn is
\* suspended at its external calls: the language classifier, the stores behind
\* the context builders, and the completion service.
ConcurrentInputs ==
    { [fn |-> "chat", msg |-> CodeAB, hist |-> WellFormedHistory(2)],
      [fn |-> "chat_stream", msg |-> <<"h", "i">>, hist |-> << >>],
      [fn |-> "chat_social", msg |-> <<"h", "i">>, hist |-> WellFormedHistory(1)] }

ConcClassifierOutcomes == {"tr", "en", "TypeError"}

\* what the stores answer to one turn
ConcRetrievals ==
    { [project |-> <<"No project documentation available.">>,
       course |-> NoHits, fallback |-> [error |-> FALSE, rows |-> << >>],
       dining |-> NoHits, entertainment |-> NoHits, events |-> NoHits],
      [project |-> <<"PROJECT DOCUMENTATION:\n", "<documents>">>,
       course |-> [error |-> FALSE, has_distances |-> TRUE, hits |-> <<CourseHit(CodeAB, 2)>>],
       fallback |-> [error |-> FALSE, rows |-> << >>],
       dining |-> Hits(<<Venue(<<"a">>, 2, CampusDistance(130))>>),
       entertainment |-> QueryError,
       events |-> Hits(<<Event(<<"i">>, 4)>>)] }

ConcCompletionOutcomes ==
    { Failed,
      [status |-> "ok", text |-> <<"g", "1">>, cls |-> "tr"],
      [status |-> "ok", text |-> <<"g", "2">>, cls |-> "en"] }

\* the locals of a turn that was just called
StartTurn(inp) ==
    [IdleTurn EXCEPT !.pc = "detect", !.fn = inp.fn, !.msg = inp.msg, !.hist = inp.hist]

\* the request the turn sends to the completion service; self.model is read here
ConcRequest(t, service, instruction, temperature) ==
    [model |-> service.model,
     messages |-> (IF t.fn = "chat_social"
                   THEN SocialMessages(t.language, instruction, t.hist,
                            SocialEnhancedMessage(t.msg, t.restaurant_context, t.event_context))
                   ELSE AcademicMessages(t.language, t.project_context, t.hist,
                            EnhancedMessage(t.msg, t.course_context))),
     temperature |-> temperature]

\* the turn runs from one external call to the next, given what the call answered
Advance(t, resp, service) ==
    LET u == [t EXCEPT !.got = Append(t.got, resp)] IN
    CASE t.pc = "detect" ->
           IF detect_language(resp) = "RAISE"
           THEN [u EXCEPT !.pc = "done", !.result = <<"raised: ", resp>>]
           ELSE [u EXCEPT !.pc = "retrieve", !.language = detect_language(resp)]
      [] t.pc = "retrieve" ->
           IF t.fn = "chat_social"
           THEN [u EXCEPT !.pc = "complete",
                          !.query = t.msg,
                          !.restaurant_context =
                              get_restaurant_context(resp.dining, resp.entertainment,
                                                     SocialTopKVenues),
                          !.event_context = get_event_context(resp.events)]
           ELSE [u EXCEPT !.pc = "complete",
                          !.project_context = resp.project,
                          !.query = (IF t.fn = "chat" THEN ExpandQuery(t.msg, t.hist)
                                     ELSE t.msg),
                          !.course_context =
                              get_course_context_with_embeddings(resp.course, resp.fallback)]
      [] t.pc = "complete" ->
           LET temperature == IF t.fn = "chat" THEN TempChat
                              ELSE IF t.fn = "chat_stream" THEN TempStream ELSE TempSocial
               v == [u EXCEPT !.calls = Append(t.calls,
                                   ConcRequest(t, service, lang_instruction(t.language),
                                               temperature))]
           IN  IF resp.status = "failed"
               THEN [v EXCEPT !.pc = "done", !.result = UnavailableApology(t.language)]
               ELSE IF t.fn # "chat_social" \/ detect_language(resp.cls) = t.language
                    THEN [v EXCEPT !.pc = "done", !.result = resp.text]
                    ELSE [v EXCEPT !.pc = "retry"]
      [] t.pc = "retry" ->
           LET v == [u EXCEPT !.calls = Append(t.calls,
                                   ConcRequest(t, service, retry_instruction(t.language),
                                               TempRetry))]
           IN  IF resp.status = "failed"
               THEN [v EXCEPT !.pc = "done", !.result = UnavailableApology(t.language)]
               ELSE IF detect_language(resp.cls) = t.language
                    THEN [v EXCEPT !.pc = "done", !.result = resp.text]
                    ELSE [v EXCEPT !.pc = "done", !.result = MismatchApology(t.language)]
      [] OTHER -> t

\* a service that remembers the model it used for the social persona
ServiceAfterSwitchesModel(service, t, resp) ==
    IF t.fn = "chat_social" /\ t.pc = "complete"
    THEN [service EXCEPT !.model = "llama-3.1-8b-instant"]
    ELSE service

\* the fields of the instance after a step of a turn: no method assigns to self
ServiceAfter(service, t, resp) == service

\* the answers a turn can get at the call it is suspended at
ConcResponses(t) ==
    IF t.pc = "detect" THEN ConcClassifierOutcomes
    ELSE IF t.pc = "retrieve" THEN ConcRetrievals
    ELSE ConcCompletionOutcomes

ConcStep(i, at) ==
    /\ turns[i].pc = at
    /\ \E resp \in ConcResponses(turns[i]) :
         /\ turns' = [turns EXCEPT ![i] = Advance(turns[i], resp, svc)]
         /\ svc' = ServiceAfter(svc, turns[i], resp)
    /\ UNCHANGED <<turnVars, retrVars, epVars, imapVars, exVars>>

\* a request handler calls chat / chat_stream / chat_social for turn i
ConcCall(i) ==
    /\ turns[i].pc = "idle"
    /\ \E inp \in ConcurrentInputs : turns' = [turns EXCEPT ![i] = StartTurn(inp)]
    /\ UNCHANGED <<svc, turnVars, retrVars, epVars, imapVars, exVars>>

ConcDetect(i) == ConcStep(i, "detect")
ConcRetrieve(i) == ConcStep(i, "retrieve")
ConcComplete(i) == ConcStep(i, "complete")
ConcRetry(i) == ConcStep(i, "retry")

\* the handler has its answer; the locals of turn i are dropped
ConcReturn(i) ==
    /\ turns[i].pc = "done"
    /\ turns' = [turns EXCEPT ![i] = IdleTurn]
    /\ UNCHANGED <<svc, turnVars, retrVars, epVars, imapVars, exVars>>

NextConcurrent ==
    \E i \in TurnIds :
       \/ ConcCall(i)
       \/ ConcDetect(i)
       \/ ConcRetrieve(i)
       \/ ConcComplete(i)
       \/ ConcRetry(i)
       \/ ConcReturn(i)

SpecConcurrent == Init /\ [][NextConcurrent]_vars

RECURSIVE Replay(_, _)
\* the same turn run alone on a freshly constructed service with the answers in got
Replay(t, got) ==
    IF Len(got) = 0 THEN t ELSE Replay(Advance(t, Head(got), ServiceInit), Tail(got))

RunAlone(t) ==
    Replay(StartTurn([fn |-> t.fn, msg |-> t.msg, hist |-> t.hist]), t.got)

\* ============================================ IMAPEmailService.extract_events_with_llm
BatchSize == 5
MaxRetries == 3
WaitCap == 120
DefaultWait == 60

\* total_batches = (len(email_texts) + batch_size - 1) // batch_size
TotalBatches(n) == (n + BatchSize - 1) \div BatchSize

\* what one completion call can do: answer with a content (a JSON list, a text
\* without JSON, or JSON that is not a list), fail with a rate-limit error that
\* says "try again in <minutes>m" (minutes = 0: it gives no such hint), or fail
\* with another error
AttemptOutcomes ==
    {[kind |-> "ok", content |-> c, minutes |-> 0] : c \in {"json_list", "no_json", "json_number"}}
    \cup {[kind |-> "rate_limit", content |-> "none", minutes |-> mn] : mn \in {0, 1, 5}}
    \cup {[kind |-> "error", content |-> "none", minutes |-> 0]}

\* the argument of time.sleep after a rate-limit error
RetryWait(minutes) ==
    IF minutes > 0 THEN Min(minutes * 60, WaitCap) ELSE DefaultWait

\* a retry counter that only counts waits whose length the error message gave
RetryCountAfterParsedWaitOnly(retry_count, minutes) ==
    IF minutes > 0 THEN retry_count + 1 ELSE retry_count

\* retry_count += 1, in both branches of the rate-limit handler
RetryCountAfter(retry_count, minutes) == retry_count + 1

\* the call of extract_events_with_llm(emails) up to the loop over the batches
ExtractStart ==
    /\ ex_pc = "idle"
    /\ \E n \in 0..MaxEmails, has_key \in BOOLEAN :
         /\ ex_emails' = n
         /\ ex_pc' = (IF has_key THEN "running" ELSE "raised")
    /\ UNCHANGED <<ex_batch_num, ex_retry_count, ex_batch_calls, ex_calls, ex_wait,
                   ex_skipped, ex_parsed>>
    /\ UNCHANGED <<turnVars, retrVars, epVars, imapVars, concVars>>

\* one pass of "while retry_count < max_retries": a completion call and what
\* follows it, up to the next call
ExtractAttempt ==
    /\ ex_pc = "running"
    /\ ex_batch_num < TotalBatches(ex_emails)
    /\ ex_retry_count < MaxRetries
    /\ ex_calls' = ex_calls + 1
    /\ \E o \in AttemptOutcomes :
         CASE o.kind = "ok" /\ o.content # "json_number" ->
                \* the content is parsed, all_events is extended, the next batch follows
                /\ ex_batch_num' = ex_batch_num + 1
                /\ ex_retry_count' = 0
                /\ ex_batch_calls' = 0
                /\ ex_parsed' = ex_parsed + 1
                /\ UNCHANGED <<ex_pc, ex_wait, ex_skipped>>
           [] o.kind = "ok" /\ o.content = "json_number" ->
                \* all_events.extend(<int>) raises TypeError: the outer handler re-raises
                /\ ex_pc' = "raised"
                /\ ex_batch_calls' = ex_batch_calls + 1
                /\ UNCHANGED <<ex_batch_num, ex_retry_count, ex_wait, ex_skipped, ex_parsed>>
           [] o.kind = "rate_limit" ->
                /\ ex_wait' = RetryWait(o.minutes)
                /\ IF RetryCountAfter(ex_retry_count, o.minutes) < MaxRetries
                   THEN /\ ex_retry_count' = RetryCountAfter(ex_retry_count, o.minutes)
                        /\ ex_batch_calls' = ex_batch_calls + 1
                        /\ UNCHANGED <<ex_batch_num, ex_skipped>>
                   ELSE \* response is None: the batch is skipped
                        /\ ex_batch_num' = ex_batch_num + 1
                        /\ ex_retry_count' = 0
                        /\ ex_batch_calls' = 0
                        /\ ex_skipped' = ex_skipped + 1
                /\ UNCHANGED <<ex_pc, ex_parsed>>
           [] OTHER ->
                \* another error is raised again and leaves the loop
                /\ ex_pc' = "raised"
                /\ ex_batch_calls' = ex_batch_calls + 1
                /\ UNCHANGED <<ex_batch_num, ex_retry_count, ex_wait, ex_skipped, ex_parsed>>
    /\ UNCHANGED ex_emails
    /\ UNCHANGED <<turnVars, retrVars, epVars, imapVars, concVars>>

\* all batches were handled: the result dictionary is returned
ExtractReturn ==
    /\ ex_pc = "running"
    /\ ex_batch_num = TotalBatches(ex_emails)
    /\ ex_pc' = "returned"
    /\ UNCHANGED <<ex_emails, ex_batch_num, ex_retry_count, ex_batch_calls, ex_calls, ex_wait,
                   ex_skipped, ex_parsed>>
    /\ UNCHANGED <<turnVars, retrVars, epVars, imapVars, concVars>>

\* the caller has the result or the exception; the locals are dropped
ExtractEnd ==
    /\ ex_pc \in {"returned", "raised"}
    /\ ex_pc' = "idle"
    /\ ex_emails' = 0
    /\ ex_batch_num' = 0
    /\ ex_retry_count' = 0
    /\ ex_batch_calls' = 0
    /\ ex_calls' = 0
    /\ ex_wait' = 0
    /\ ex_skipped' = 0
    /\ ex_parsed' = 0
    /\ UNCHANGED <<turnVars, retrVars, epVars, imapVars, concVars>>

NextExtract ==
    \/ ExtractStart
    \/ ExtractAttempt
    \/ ExtractReturn
    \/ ExtractEnd

\* the method runs on: a call returns or raises, and every sleep ends
SpecExtract == Init /\ [][NextExtract]_vars /\ WF_vars(NextExtract)

\* ================================================================== claims

\* C1: one call of chat, chat_stream or chat_social issues at most 2 completion
\* calls: chat and chat_stream at most 1, chat_social at most one normal call
\* (temperature 0.5) followed by at most one language-retry call (temperature 0.0).
C1_BoundedRetry ==
    /\ Len(calls) <= 2
    /\ fn \in {"chat", "chat_stream"} => Len(calls) <= 1
    /\ fn = "chat_social" =>
         /\ Cardinality({i \in 1..Len(calls) : calls[i].temperature = 5}) <= 1
         /\ Cardinality({i \in 1..Len(calls) : calls[i].temperature = 0}) <= 1
         /\ Len(calls) = 2 => (calls[1].temperature = 5 /\ calls[2].temperature = 0)

C1_Witness ==
    pc = "done" /\ fn = "chat_social" /\ Len(calls) = 2

\* C2: in chat_social, when both completions succeed and each text is detected
\* as a language other than the expected one, the result is exactly the fixed
\* apology of the expected language and holds no text of either completion.
C2_FallbackDeterminism ==
    LET Detected(cls) == IF cls = "tr" THEN "tr" ELSE "en"
        Classified(o) == o.status = "ok" /\ o.cls \in {"tr", "en", "de", "LangDetectException"}
    IN (/\ pc = "done" /\ fn = "chat_social"
        /\ Classified(first) /\ Detected(first.cls) # language
        /\ Classified(retry) /\ Detected(retry.cls) # language)
       => /\ language = "tr" =>
               result = <<"Uzgunum, yaniti Turkce olusturamadim. Lutfen tekrar deneyin.">>
          /\ language = "en" =>
               result = <<"Sorry, I couldn't produce a response in English. Please try again.">>
          /\ language \in {"tr", "en"}
          /\ result # first.text /\ result # retry.text
          /\ \A i \in 1..Len(result) :
               /\ \A j \in 1..Len(first.text) : result[i] # first.text[j]
               /\ \A j \in 1..Len(retry.text) : result[i] # retry.text[j]

C2_Witness ==
    /\ pc = "done" /\ fn = "chat_social" /\ language = "tr"
    /\ first.status = "ok" /\ first.cls = "en"
    /\ retry.status = "ok" /\ retry.cls = "de"
    /\ returned_at = "fallback"

\* C3: in every blocking turn of either persona (chat, chat_social) the text
\* returned is detected as the expected language or is one of the fixed
\* apologies: a completion of another language is never returned as the answer.
C3_MismatchRecovered ==
    LET Detected(cls) == IF cls = "tr" THEN "tr" ELSE "en"
    IN (pc = "done" /\ fn \in {"chat", "chat_social"}) =>
          \/ result \in Apologies
          \/ (returned_at = "resp_first" /\ result = first.text /\ Detected(first.cls) = language)
          \/ (returned_at = "resp_retry" /\ result = retry.text /\ Detected(retry.cls) = language)

\* C4: the verifier of chat_social runs FIRST_ATTEMPT -> DONE | RETRY -> DONE | FALLBACK:
\* the retry call is issued exactly when the first call succeeded with a text of
\* another language; a matching first response is returned unchanged without a
\* retry; a matching retry response is returned unchanged instead of the first.
C4_VerifierStateMachine ==
    /\ [](LET Detected(cls) == IF cls = "tr" THEN "tr" ELSE "en"
              Classified(o) == o.status = "ok" /\ o.cls \in {"tr", "en", "de", "LangDetectException"}
              Mismatch(o) == Classified(o) /\ Detected(o.cls) # language
              Match(o) == Classified(o) /\ Detected(o.cls) = language
          IN fn = "chat_social" =>
              /\ pc = "first_attempt" => Len(calls) = 0
              /\ pc = "retry" => (Len(calls) = 1 /\ Mismatch(first) /\ result = None)
              /\ Len(calls) = 2 => Mismatch(first)
              /\ pc = "done" =>
                   /\ Len(calls) = 2 <=> Mismatch(first)
                   /\ Match(first) =>
                        (result = first.text /\ Len(calls) = 1 /\ retry = NotCalled
                         /\ returned_at = "resp_first")
                   /\ Match(retry) => (result = retry.text /\ returned_at = "resp_retry")
                   /\ Mismatch(retry) => returned_at = "fallback"
                   /\ returned_at \in {"resp_first", "resp_retry", "fallback", "except"})
    /\ [][fn = "chat_social" =>
            /\ pc = "first_attempt" => pc' \in {"done", "retry"}
            /\ pc = "retry" => pc' = "done"]_vars

C4_Witness ==
    /\ pc = "done" /\ fn = "chat_social" /\ returned_at = "resp_retry"
    /\ first.status = "ok" /\ retry.status = "ok"
    /\ result = retry.text /\ retry.text # first.text

\* C5: when a completion call fails inside chat or chat_social, on the first
\* attempt or on the retry, no further completion call is issued, nothing is
\* raised, and the result is the fixed 'cannot generate a response' apology in
\* the language detected from the user message.
C5_CompletionUnavailable ==
    (fn \in {"chat", "chat_social"} /\ (first.status = "failed" \/ retry.status = "failed"))
    => /\ pc = "done" /\ raised = ""
       /\ language = (IF user_cls = "tr" THEN "tr" ELSE "en")
       /\ language = "tr" =>
            result = <<"Uzgunum, su anda yanit olusturamiyorum. Lutfen daha sonra tekrar deneyin.">>
       /\ language = "en" =>
            result = <<"I'm sorry, I cannot generate a response at the moment. Please try again later.">>
       /\ first.status = "failed" => (Len(calls) = 1 /\ retry = NotCalled)
       /\ retry.status = "failed" => (Len(calls) = 2 /\ result # first.text)

C5_Witness ==
    /\ pc = "done" /\ fn = "chat_social" /\ language = "tr"
    /\ first.status = "ok" /\ retry.status = "failed" /\ Len(calls) = 2

\* C6: no failure of the language classifier, of a retrieval collection, of the
\* structured store, of a malformed history turn or of the completion service
\* makes an exception escape chat / chat_social.
C6_NoExceptionEscapes ==
    fn \in {"chat", "chat_social"} => (pc # "raised" /\ raised = "")

\* C7: detect_language never raises: it returns 'tr' exactly when the classifier
\* reports 'tr' and 'en' for every other outcome, classifier failures included.
C7_DetectNeverRaises ==
    user_cls # "none" =>
        /\ raised \notin ClassifierOutcomes
        /\ language = (IF user_cls = "tr" THEN "tr" ELSE "en")

\* C8: the final user turn of every completion call is the raw user_message when
\* all context blocks are empty, and otherwise user_message, a blank line and the
\* non-empty blocks in domain order (venues before events), empty blocks left
\* out; a context builder given no hits returns the empty string.
C8_FinalUserTurn ==
    /\ \A i \in 1..Len(calls) :
         LET last == calls[i].messages[Len(calls[i].messages)]
             a == IF fn = "chat_social" THEN restaurant_context ELSE course_context
             b == IF fn = "chat_social" THEN event_context ELSE << >>
         IN /\ last.role = "user"
            /\ last.content =
                 (IF a = << >> /\ b = << >> THEN user_message
                  ELSE IF b = << >> THEN user_message \o <<"\n\n">> \o a
                  ELSE IF a = << >> THEN user_message \o <<"\n\n">> \o b
                  ELSE user_message \o <<"\n\n">> \o a \o <<"\n\n">> \o b)
    /\ get_event_context(NoHits) = << >>
    /\ get_restaurant_context(NoHits, NoHits, SocialTopKVenues) = << >>
    /\ \A fb \in TurnFallbackResults : get_course_context_with_embeddings(NoHits, fb) = << >>

C8_Witness ==
    /\ pc = "done" /\ fn = "chat_social" /\ Len(calls) = 2
    /\ restaurant_context # << >> /\ event_context # << >>

\* C9: every similarity derived from a non-null distance lies in [0, 1], in the
\* course, venue and event context builders and in the course search endpoint.
C9_SimilarityBounds ==
    /\ \A i \in 1..Len(cb_sims) : 0 <= cb_sims[i] /\ cb_sims[i] <= 10
    /\ \A i \in 1..Len(sc_courses) :
         sc_courses[i].has_score =>
            (0 <= sc_courses[i].similarity_score /\ sc_courses[i].similarity_score <= 10)

\* C10: in search_courses, when the query matches the course-code pattern (2-4
\* letters, optional whitespace, 3 digits) and the courses table holds a course
\* with that code, the first result is that course with similarity 1.0 and the
\* course is not listed a second time.
C10_ExactMatchFirst ==
    LET Code(s) == SelectSeq(Upper(s), LAMBDA c : c \notin Spaces)
    IN (/\ op = "search_courses" /\ sc_status = "ok" /\ ~sc_db_error
        /\ IsCodeQuery(Upper(sc_query))
        /\ \E c \in sc_store : Code(c) = Code(sc_query))
       => /\ Len(sc_courses) >= 1
          /\ Code(sc_courses[1].course_code) = Code(sc_query)
          /\ sc_courses[1].has_score /\ sc_courses[1].similarity_score = 10
          /\ \A i \in 2..Len(sc_courses) :
               sc_courses[i].course_code # sc_courses[1].course_code

\* C11: in search_courses, for every requested top_k >= 1 the number of returned
\* results (the exact match plus the vector hits) never exceeds top_k, an exact
\* match or not.
C11_ResultCountWithinTopK ==
    (op = "search_courses" /\ sc_status = "ok" /\ sc_top_k >= 1)
    => Len(sc_courses) <= sc_top_k

\* C12: a venue whose distance_from_campus is below 1.0 km is rendered with the
\* whole number of meters, a venue at 1.0 km or more with the kilometers and
\* exactly one decimal (999 m -> '999 meters', 1000 m -> '1.0 km'), and no
\* rendered venue with a known distance is left without its distance line.
C12_DistanceRendering ==
    LET Has(text, ps) == \E i \in 1..Len(text) :
                            i + Len(ps) - 1 <= Len(text) /\ SubSeq(text, i, i + Len(ps) - 1) = ps
        rs == RenderedVenues(cb_in.dining, cb_in.entertainment, cb_in.top_k)
        Meters(m) == <<"Distance: ", ToString(m), " meters from campus">>
        Km(a, b) == <<"Distance: ", ToString(a), ".", ToString(b), " km from campus">>
    IN (op = "get_restaurant_context" /\ cb_text # << >>) =>
         /\ \A i \in 1..Len(rs) :
              LET d == rs[i].metadata.distance_from_campus
              IN d.kind = "num" =>
                   IF d.m < 1000
                   THEN Has(cb_text, Meters(d.m))
                   ELSE \E a \in 0..9, b \in 0..9 :
                           /\ Has(cb_text, Km(a, b))
                           /\ 100 * (10 * a + b) - 50 <= d.m /\ d.m <= 100 * (10 * a + b) + 50
         /\ (\E i \in 1..Len(rs) : rs[i].metadata.distance_from_campus = CampusDistance(999))
              => Has(cb_text, <<"Distance: ", "999", " meters from campus">>)
         /\ (\E i \in 1..Len(rs) : rs[i].metadata.distance_from_campus = CampusDistance(1000))
              => Has(cb_text, <<"Distance: ", "1", ".", "0", " km from campus">>)
         /\ \A m \in 1000..1001 : ~Has(cb_text, Meters(m))

\* C13: chat_stream issues exactly one completion call (a streaming one), never
\* detects the language of generated text, yields every content chunk the
\* completion service produced exactly once and in production order, and once a
\* chunk has been yielded no retry or fallback text replaces or follows it.
C13_StreamDelivery ==
    LET content == SelectSeq(produced, LAMBDA c : c # << >>)
    IN fn = "chat_stream" =>
         /\ Len(calls) <= 1
         /\ pc \in {"streaming", "done"} => (Len(calls) = 1 /\ calls[1].stream)
         /\ first.cls = "none" /\ retry = NotCalled
         /\ \/ yielded = content
            \/ (content = << >> /\ yielded = <<UnavailableApology(language)>>)

\* C14: in add_message_stream, when the stream runs to completion exactly one
\* assistant message is persisted for the turn; its content is the concatenation,
\* in order, of all chunks forwarded to the client (the apology chunk included);
\* it is persisted after the last chunk was forwarded, and the done event is
\* emitted last, only after that persistence.
C14_StreamPersistence ==
    LET n == Len(ep_trace)
        ChunksBefore(i) == [j \in 1..(i - 1) |-> ep_trace[j].data]
    IN ep_fn = "add_message_stream" =>
         /\ \A i \in 1..n :
              ep_trace[i].ev = "done" => (i = n /\ n >= 2 /\ ep_trace[n - 1].ev = "persist")
         /\ \A i \in 1..n :
              ep_trace[i].ev = "persist" =>
                 /\ \A j \in 1..(i - 1) : ep_trace[j].ev = "chunk"
                 /\ \A j \in (i + 1)..n : ep_trace[j].ev = "done"
                 /\ ChunksBefore(i) = yielded
                 /\ ep_trace[i].data = ConcatAll(ChunksBefore(i))
                 /\ db_messages = db_before \o <<ep_msg, Turn("assistant", ep_trace[i].data)>>
         /\ (n >= 1 /\ ep_trace[n].ev = "done") =>
              /\ Cardinality({i \in 1..n : ep_trace[i].ev = "persist"}) = 1
              /\ Len(db_messages) = Len(db_before) + 2
              /\ db_messages[Len(db_messages)] =
                   Turn("assistant", ConcatAll(ChunksBefore(n - 1)))

C14_Witness ==
    /\ ep_fn = "add_message_stream" /\ ep_pc = "responded"
    /\ Len(ep_trace) = 4 /\ ep_trace[4].ev = "done"
    /\ ep_trace[2].data = UnavailableApology(language)

\* C15 as stated: when the query of a semantic collection fails, the context
\* block of that collection is empty (for a venue collection: the block holds
\* what the other venue collection alone gives), for courses, dining,
\* entertainment and events alike.
C15_FailureEmptiesBlock ==
    /\ (op = "get_course_context_with_embeddings" /\ cb_in.course.error) => cb_text = << >>
    /\ (op = "get_event_context" /\ cb_in.events.error) => cb_text = << >>
    /\ (op = "get_restaurant_context" /\ cb_in.dining.error) =>
          cb_text = get_restaurant_context(NoHits, cb_in.entertainment, cb_in.top_k)
    /\ (op = "get_restaurant_context" /\ cb_in.entertainment.error) =>
          cb_text = get_restaurant_context(cb_in.dining, NoHits, cb_in.top_k)

\* C15: a failing query of a semantic collection never leaves its context
\* builder as an exception. The failing collection contributes no hits: the
\* events block is empty, the venues block holds what the other venue collection
\* alone gives (empty when both fail). For courses the builder falls back to the
\* keyword search of the structured store: the block is empty when that search
\* fails or finds nothing, and is the keyword-search block otherwise.
C15_FailureIsolation ==
    /\ op \in {"get_course_context_with_embeddings", "get_event_context", "get_restaurant_context"}
         => cb_text \in Seq(STRING)
    /\ (op = "get_course_context_with_embeddings" /\ cb_in.course.error) =>
          IF cb_in.fallback.error \/ cb_in.fallback.rows = << >>
          THEN cb_text = << >>
          ELSE /\ cb_text[1] = "RELEVANT COURSES (Keyword Search):\n"
               /\ \A i \in 1..Len(cb_text) : cb_text[i] # "RELEVANT COURSES (Semantic Search Results):\n"
    /\ (op = "get_event_context" /\ cb_in.events.error) => cb_text = << >>
    /\ (op = "get_restaurant_context" /\ cb_in.dining.error) =>
          cb_text = get_restaurant_context(NoHits, cb_in.entertainment, cb_in.top_k)
    /\ (op = "get_restaurant_context" /\ cb_in.entertainment.error) =>
          cb_text = get_restaurant_context(cb_in.dining, NoHits, cb_in.top_k)
    /\ (op = "get_restaurant_context" /\ cb_in.dining.error /\ cb_in.entertainment.error) =>
          cb_text = << >>

C15_Witness ==
    /\ op = "get_course_context_with_embeddings" /\ cb_in.course.error
    /\ ~cb_in.fallback.error /\ cb_text # << >>

\* C16: after any call of IMAPEmailService.connect that fails (raises),
\* is_connected is False, whatever the state before the call, a session
\* connected to another account included.
C16_FailedConnectDisconnects ==
    (im_op = "connect" /\ im_result # "True") => im_is_connected = FALSE

\* C17: every message list sent to the completion service holds, between the
\* system turn(s) and the final user turn, exactly the last min(10, n) turns of
\* the supplied history of n turns, verbatim and in order, on the first attempt
\* and on the retry alike; building it never changes the supplied history.
C17_HistoryWindow ==
    /\ [](\A i \in 1..Len(calls) :
            LET m == calls[i].messages
                k == IF fn = "chat_social" THEN 2 ELSE 1
                n == Len(history)
                w == IF n < 10 THEN n ELSE 10
            IN /\ Len(m) = k + w + 1
               /\ \A j \in 1..k : m[j].role = "system"
               /\ \A j \in 1..w : m[k + j] = history[n - w + j]
               /\ m[k + w + 1].role = "user")
    /\ [][(pc # "idle" /\ pc' # "idle") => history' = history]_vars

C17_Witness ==
    /\ fn = "chat_social" /\ pc = "done" /\ Len(calls) = 2
    /\ Len(history) > 10

\* C18: for conversations of any length, in add_message and in
\* add_message_stream, the history handed to the orchestrator is exactly the
\* stored messages that precede the just-added user message, in chronological
\* order; the prompt therefore carries the most recent (up to 10) prior turns and
\* the just-added user message exactly once, as the final user turn.
C18_HistoryPrecedesMessage ==
    ep_pc = "turn" =>
        /\ db_messages = Append(db_before, ep_msg)
        /\ user_message = ep_msg.content
        /\ history = db_before
        /\ \A i \in 1..Len(calls) :
             LET m == calls[i].messages
                 k == IF fn = "chat_social" THEN 2 ELSE 1
                 n == Len(db_before)
                 w == IF n < 10 THEN n ELSE 10
             IN /\ Len(m) = k + w + 1
                /\ \A j \in 1..w : m[k + j] = db_before[n - w + j]
                /\ m[k + w + 1].role = "user"
                /\ SubSeq(m[k + w + 1].content, 1, Len(ep_msg.content)) = ep_msg.content

\* C19 as stated: a course code that occurs in a user or assistant turn among
\* the last 3 history turns is a substring of the expanded query of chat.
C19_CodesReachQuery ==
    LET n == Len(history)
        w == IF n < 3 THEN n ELSE 3
        IsSub(c, q) == \E i \in 1..Len(q) :
                          i + Len(c) - 1 <= Len(q) /\ SubSeq(q, i, i + Len(c) - 1) = c
    IN (fn = "chat" /\ pc \in {"retrieve", "first_attempt", "done"}) =>
         \A j \in 1..w :
            history[n - w + j].role \in {"user", "assistant"} =>
               \A c \in 1..Len(FindCodes(history[n - w + j].content, 1)) :
                  IsSub(FindCodes(history[n - w + j].content, 1)[c], search_query)

\* C19: the query expansion of chat looks only at the last 3 history turns; in
\* order it collects the full text of each user turn and at most the first 2
\* course-code matches of each assistant turn, ignoring other roles; the
\* retrieval query is the collected tokens joined by spaces, a space and the
\* current query, and is the raw query when the history is empty or nothing was
\* collected. Hence a course code in a user turn, or among the first 2 matches
\* of an assistant turn, within the last 3 turns is a substring of the query.
C19_QueryExpansion ==
    LET n == Len(history)
        w == IF n < 3 THEN n ELSE 3
        Codes(t) == FindCodes(t.content, 1)
        Tok(t) == IF t.role = "user" THEN <<t.content>>
                  ELSE IF t.role = "assistant"
                       THEN SubSeq(Codes(t), 1, IF Len(Codes(t)) < 2 THEN Len(Codes(t)) ELSE 2)
                       ELSE << >>
        toks == ConcatAll([j \in 1..w |-> Tok(history[n - w + j])])
        IsSub(c, q) == \E i \in 1..Len(q) :
                          i + Len(c) - 1 <= Len(q) /\ SubSeq(q, i, i + Len(c) - 1) = c
    IN (fn = "chat" /\ pc \in {"retrieve", "first_attempt", "done"}) =>
         /\ search_query =
              (IF toks = << >> THEN user_message
               ELSE ConcatAll([i \in 1..Len(toks) |-> toks[i] \o <<" ">>]) \o user_message)
         /\ n = 0 => search_query = user_message
         /\ \A j \in 1..w :
              LET t == history[n - w + j]
              IN /\ t.role = "user" =>
                      \A c \in 1..Len(Codes(t)) : IsSub(Codes(t)[c], search_query)
                 /\ t.role = "assistant" =>
                      \A c \in 1..Len(Codes(t)) : c <= 2 => IsSub(Codes(t)[c], search_query)

C19_Witness ==
    /\ fn = "chat" /\ pc = "done" /\ Len(history) = 4
    /\ history[2].role = "assistant" /\ Len(FindCodes(history[2].content, 1)) = 3
    /\ history[4].role = "system"
    /\ search_query # user_message

\* C20: the expanded query of chat is used for retrieval only: the language is
\* detected from the original user_message before the expansion exists, the
\* final user turn is built from the original user_message, the expanded string
\* is not the content of (nor contained in) a turn built by the assembler, and
\* it is never written to the conversation store.
C20_ExpandedQueryOnlyRetrieves ==
    /\ [](LET IsSub(c, q) == \E i \in 1..Len(q) :
                                i + Len(c) - 1 <= Len(q) /\ SubSeq(q, i, i + Len(c) - 1) = c
          IN fn = "chat" =>
               /\ pc = "prepare" =>
                    (search_query = << >> /\ language = (IF user_cls = "tr" THEN "tr" ELSE "en"))
               /\ \A i \in 1..Len(calls) :
                    LET m == calls[i].messages
                        last == m[Len(m)]
                    IN /\ last.role = "user"
                       /\ last.content = (IF course_context = << >> THEN user_message
                                          ELSE user_message \o <<"\n\n">> \o course_context)
                       /\ search_query # user_message =>
                            /\ last.content # search_query /\ m[1].content # search_query
                            /\ ~IsSub(search_query, last.content)
                            /\ ~IsSub(search_query, m[1].content)
               /\ ep_pc \in {"turn", "responded"} =>
                    /\ Len(db_messages) \in {Len(db_before) + 1, Len(db_before) + 2}
                    /\ SubSeq(db_messages, 1, Len(db_before)) = db_before
                    /\ db_messages[Len(db_before) + 1] = Turn("user", user_message)
                    /\ search_query # user_message =>
                         \A r \in 1..Len(db_messages) : db_messages[r].content # search_query)
    /\ [][(fn = "chat" /\ pc \notin {"idle", "detect"} /\ pc' # "idle") => language' = language]_vars

C20_Witness ==
    /\ fn = "chat" /\ ep_pc = "responded" /\ ep_response = "ai_message"
    /\ search_query # user_message /\ search_query # << >>
    /\ Len(db_messages) = Len(db_before) + 2

\* C21: on every path (chat, chat_stream, chat_social) and for every non-empty
\* history, the query handed to the semantic retriever is the Query Expander's
\* output for (user_message, history); the blocking and the streaming academic
\* path therefore retrieve with the same query for the same inputs.
C21_RetrieverGetsExpandedQuery ==
    (pc \in {"retrieve", "first_attempt", "retry", "streaming", "done"} /\ Len(history) > 0)
        => search_query = ExpandQuery(user_message, history)

\* C22: every completion call of the social persona (first attempt and retry)
\* starts with exactly two system turns put there by the service, the persona
\* prompt and then a language directive naming the expected language; every
\* completion call of the academic persona (chat, chat_stream) starts with
\* exactly one system turn, the persona prompt, and carries no language
\* directive. What follows the leading system turns is the history window and
\* the final user turn.
C22_LeadingSystemTurns ==
    \A i \in 1..Len(calls) :
        LET m == calls[i].messages
            window == LastN(history, HistoryWindow)
            directives == {lang_instruction(l) : l \in {"tr", "en"}}
                          \cup {retry_instruction(l) : l \in {"tr", "en"}}
        IN  IF fn = "chat_social"
            THEN /\ Len(m) = 2 + Len(window) + 1
                 /\ m[1] = Turn("system", create_social_system_prompt(language))
                 /\ m[2].role = "system"
                 /\ m[2].content \in {lang_instruction(language), retry_instruction(language)}
                 /\ \E j \in 1..Len(m[2].content) : m[2].content[j] = lang_label(language)
                 /\ SubSeq(m, 3, Len(m) - 1) = window
                 /\ m[Len(m)].role = "user"
            ELSE /\ Len(m) = 1 + Len(window) + 1
                 /\ m[1] = Turn("system", create_system_prompt(language, project_context))
                 /\ SubSeq(m, 2, Len(m) - 1) = window
                 /\ m[Len(m)].role = "user"
                 /\ \A j \in 1..Len(m) : m[j].content \notin directives

\* a Turkish social turn has issued its first attempt and its retry
C22_Witness ==
    /\ fn = "chat_social"
    /\ language = "tr"
    /\ Len(calls) = 2
    /\ calls[1].messages[2].content = lang_instruction("tr")
    /\ calls[2].messages[2].content = retry_instruction("tr")

\* C23: the retry completion call of chat_social uses temperature 0.0 and the
\* same persona prompt, the same last-10 history turns and the same final user
\* turn (user text plus context blocks) as the first attempt: the two message
\* lists differ only in the text of the language-directive system turn. Between
\* the two calls no retrieval, query expansion or language detection of the
\* user message is run again.
C23_RetryKeepsContext ==
    /\ [](Len(calls) = 2 =>
            LET m1 == calls[1].messages
                m2 == calls[2].messages
            IN  /\ calls[2].temperature = TempRetry
                /\ TempRetry = 0
                /\ Len(m2) = Len(m1)
                /\ \A j \in 1..Len(m1) : j # 2 => m2[j] = m1[j]
                /\ m2[2].role = m1[2].role
                /\ m2[2].content # m1[2].content
                /\ m2[Len(m2)] = Turn("user", SocialEnhancedMessage(user_message,
                                                  restaurant_context, event_context)))
    /\ [][pc = "retry" =>
            UNCHANGED <<user_message, history, language, user_cls, search_query,
                        course_context, restaurant_context, event_context>>]_vars

\* a retry was issued in a turn that has history and a venue block
C23_Witness ==
    /\ Len(calls) = 2
    /\ Len(history) > 0
    /\ Len(restaurant_context) > 0
    /\ retry.status = "ok"

\* C24: get_restaurant_context gathers the hits of the dining and of the
\* entertainment collection independently (a failing or empty collection does
\* not discard the other's hits), merges them, sorts the merged hits by
\* ascending distance_from_campus of the hit metadata (not by embedding
\* distance) and only then truncates to top_k: at most top_k venues are
\* rendered, in non-decreasing distance order, and no omitted hit is closer to
\* campus than a rendered one. (Stated for retrievals whose build does not
\* raise; a malformed hit is the subject of C26.)
C24_SortThenTruncate ==
    (op = "get_restaurant_context"
       /\ ~VenueBuildRaises(cb_in.dining, cb_in.entertainment, cb_in.top_k)) =>
        LET d == cb_in.dining
            e == cb_in.entertainment
            gathered == (IF d.error THEN << >> ELSE d.hits) \o (IF e.error THEN << >> ELSE e.hits)
            rv == RenderedVenues(d, e, cb_in.top_k)
            Hit(r) == [metadata |-> r.metadata, document |-> r.document, distance |-> r.distance]
            Count(x, q) == Cardinality({i \in 1..Len(q) : q[i] = x})
            shown == [i \in 1..Len(rv) |-> Hit(rv[i])]
        IN  /\ Len(rv) = Min(cb_in.top_k, Len(gathered))
            /\ \A i \in 1..Len(shown) : Count(shown[i], shown) <= Count(shown[i], gathered)
            /\ \A i, j \in 1..Len(rv) : i < j => CampusKey(rv[i]) <= CampusKey(rv[j])
            /\ \A k \in 1..Len(gathered) :
                 Count(gathered[k], shown) < Count(gathered[k], gathered) =>
                    \A i \in 1..Len(rv) : CampusKey(rv[i]) <= CampusKey(gathered[k])
            /\ cb_text = (IF Len(gathered) = 0 THEN << >>
                          ELSE Join(<<"\n">>, << <<"NEARBY VENUES (from database):\n">> >>
                                                \o AllVenueParts(rv)))

\* both collections answered, the merged hits exceed top_k, and the nearest
\* venue came second from the entertainment collection
C24_Witness ==
    /\ op = "get_restaurant_context"
    /\ Len(cb_text) > 0
    /\ ~cb_in.dining.error /\ ~cb_in.entertainment.error
    /\ Len(cb_in.dining.hits) >= cb_in.top_k
    /\ Len(cb_in.entertainment.hits) = 2
    /\ \A i \in 1..Len(cb_in.dining.hits) :
         CampusKey(cb_in.dining.hits[i]) > CampusKey(cb_in.entertainment.hits[2])
    /\ cb_in.entertainment.hits[1].distance < cb_in.entertainment.hits[2].distance

\* C25: the venue block does not depend on the order in which the dining and
\* the entertainment collection are queried: for the same collection contents
\* the block built with the entertainment hits gathered first is the block the
\* code builds (dining first), also when several hits have the same
\* distance_from_campus and when the merged hits exceed top_k.
C25_IssuanceOrderIrrelevant ==
    op = "get_restaurant_context" =>
        cb_text = get_restaurant_context(cb_in.entertainment, cb_in.dining, cb_in.top_k)

\* C26: when one retrieved item has an unexpected shape (its metadata lacks the
\* name, title or course_code field), only that item is treated as absent: the
\* context block is the one the builder gives for the well-formed hits of the
\* same retrieval alone.
C26_MalformedItemSkipped ==
    LET VenueOk(h) == h.metadata.name # Missing
        EventOk(h) == h.metadata.title # Missing
        CourseOk(h) == ~CourseHitRaises(h)
        OnlyVenues(res) == [res EXCEPT !.hits = SelectSeq(res.hits, VenueOk)]
        OnlyEvents(res) == [res EXCEPT !.hits = SelectSeq(res.hits, EventOk)]
        OnlyCourses(res) == [res EXCEPT !.hits = SelectSeq(res.hits, CourseOk)]
    IN  /\ op = "get_restaurant_context" =>
             cb_text = get_restaurant_context(OnlyVenues(cb_in.dining),
                                              OnlyVenues(cb_in.entertainment), cb_in.top_k)
        /\ op = "get_event_context" =>
             cb_text = get_event_context(OnlyEvents(cb_in.events))
        /\ op = "get_course_context_with_embeddings" =>
             cb_text = get_course_context_with_embeddings(OnlyCourses(cb_in.course),
                                                          cb_in.fallback)

\* C27: if the client abandons the stream after k chunks were forwarded (the
\* response generator is closed at a yield point), no further chunk is
\* forwarded and the store ends in a permitted state: no assistant message is
\* persisted for the turn, or the persisted assistant message is exactly the
\* concatenation of the chunks produced up to the cancellation; a message with
\* text that was never produced, or a second assistant message for the turn,
\* is never persisted.
C27_CancelledStream ==
    /\ [](ep_response = "cancelled" =>
            LET sent == SelectSeq(ep_trace, LAMBDA e : e.ev = "chunk")
                text == ConcatAll([i \in 1..Len(sent) |-> sent[i].data])
            IN  \/ db_messages = Append(db_before, ep_msg)
                \/ db_messages = Append(db_before, ep_msg) \o <<Turn("assistant", text)>>)
    /\ [][(ep_response' = "cancelled" /\ ep_response # "cancelled") =>
             (ep_trace' = ep_trace /\ db_messages' = db_messages)]_vars
    /\ [][ep_response = "cancelled" =>
             (Forwarded' <= Forwarded /\ Len(db_messages') <= Len(db_messages))]_vars

\* the stream was abandoned after one chunk was forwarded and while the
\* completion stream still had a chunk to deliver
C27_Witness ==
    /\ ep_response = "cancelled"
    /\ Forwarded = 1
    /\ Len(stream) > 0
    /\ db_messages = Append(db_before, ep_msg)

\* C28: handling a user turn in add_message only appends to the conversation:
\* the stored sequence is the previous messages, unchanged and in the same
\* order, followed by the user message and then at most one assistant message.
\* The user message is committed before generation starts and stays stored
\* when generation fails, and no turn gets two assistant replies.
C28_AppendOnly ==
    /\ []((ep_fn = "add_message" /\ ep_msg.role = "user" /\ ep_response # "500") =>
            /\ \/ db_messages = Append(db_before, ep_msg)
               \/ /\ Len(db_messages) = Len(db_before) + 2
                  /\ SubSeq(db_messages, 1, Len(db_before) + 1) = Append(db_before, ep_msg)
                  /\ db_messages[Len(db_messages)].role = "assistant"
                  /\ ep_response = "ai_message"
            /\ ep_pc = "turn" => db_messages = Append(db_before, ep_msg)
            /\ (ep_pc = "responded" /\ ep_response = "db_message") =>
                   db_messages = Append(db_before, ep_msg)
            /\ Len(SelectSeq(ep_trace, LAMBDA e : e.ev = "persist")) <= 1)
    /\ [][(ep_fn = "add_message" /\ ep_fn' = "add_message") =>
             /\ Len(db_messages') >= Len(db_messages)
             /\ SubSeq(db_messages', 1, Len(db_messages)) = db_messages]_vars

\* an answer was stored behind the user message of a conversation with history
C28_Witness ==
    /\ ep_fn = "add_message"
    /\ ep_response = "ai_message"
    /\ Len(db_before) >= 2
    /\ db_messages = db_before \o <<ep_msg, Turn("assistant", result)>>

\* C29: turns are independent and stateless: no field of the shared
\* GroqAcademicService instance is written after construction, so two turns
\* handled at the same time on that instance, interleaved in any way at their
\* external calls (language detection, retrieval, completion), each send the
\* requests and return the result they give when run alone with the same
\* external responses.
C29_TurnsIndependent ==
    /\ [](svc = ServiceInit)
    /\ [](\A i \in TurnIds : turns[i].pc # "idle" => turns[i] = RunAlone(turns[i]))
    /\ [][svc' = svc]_vars

\* a social turn finished after a retry while an academic turn, started before
\* it, is still waiting for its completion
C29_Witness ==
    /\ turns[1].fn = "chat_social" /\ turns[1].pc = "done" /\ Len(turns[1].calls) = 2
    /\ turns[2].fn = "chat" /\ turns[2].pc = "complete"
    /\ turns[1].language # turns[2].language

\* C30: extract_events_with_llm has a bounded retry policy: for each batch of
\* up to 5 emails at most 3 completion calls are made (only rate-limit errors
\* are retried, each wait capped at 120 seconds); after 3 rate-limited attempts
\* the batch is skipped and processing continues with the next batch; an error
\* that is not a rate limit is never retried; the total number of completion
\* calls is at most 3 times the number of batches, and the procedure always
\* terminates with a result or an error.
C30_BoundedRetry ==
    /\ [](/\ ex_batch_calls <= MaxRetries
          /\ ex_retry_count < MaxRetries
          /\ ex_retry_count <= ex_batch_calls
          /\ ex_wait <= WaitCap
          /\ ex_calls <= MaxRetries * ex_batch_num + ex_batch_calls
          /\ ex_calls <= MaxRetries * TotalBatches(ex_emails)
          /\ ex_batch_num <= TotalBatches(ex_emails)
          /\ ex_batch_num * BatchSize < ex_emails + BatchSize
          /\ ex_pc = "returned" =>
                (ex_batch_num = TotalBatches(ex_emails)
                 /\ ex_parsed + ex_skipped = TotalBatches(ex_emails)))
    /\ [][ex_skipped' = ex_skipped + 1 =>
             (ex_retry_count = MaxRetries - 1 /\ ex_batch_calls = MaxRetries - 1
              /\ ex_batch_num' = ex_batch_num + 1 /\ ex_pc' = "running")]_vars
    /\ [][ex_pc = "raised" => ex_calls' <= ex_calls]_vars
    /\ (ex_pc = "running") ~> (ex_pc \in {"returned", "raised"})

\* eleven emails: the first batch was skipped after three rate-limited calls,
\* the others were answered, and the result was returned
C30_Witness ==
    /\ ex_pc = "returned"
    /\ ex_emails = 11
    /\ ex_skipped = 1
    /\ ex_parsed = 2
    /\ ex_calls = MaxRetries + 2

====
